---- MODULE Spec2Model ----
(***************************************************************************)
(* A model of the python-odbtp driver core (src/odbtp/connection.py,       *)
(* src/odbtp/types.py): the Connection and Cursor objects, the handles     *)
(* they obtain from the ODBTP client library, and the library calls every  *)
(* public method issues.  One action is one whole method call: the driver  *)
(* is synchronous, so a method runs to its return or to its raise.         *)
(*                                                                         *)
(* The client library is the environment.  A call that reports a status    *)
(* may succeed or fail; each action draws, with \E, which call of the      *)
(* method fails (if any) and what the library reports.                     *)
(***************************************************************************)
EXTENDS Integers, Sequences, FiniteSets, TLC

VARIABLES
    conn,       \* the Connection object
    cur,        \* the Cursor objects, by identity
    allocated,  \* handles odbAllocate has returned so far: 1..allocated
    site,       \* handle -> the code place that allocated it
    frees,      \* handle -> how many times odbFree was called on it (0, 1, 2+)
    srv,        \* cursor -> the library's result state for its handle
    last,       \* the last method call: which, on what, how it ended
    calls,      \* the library calls the last method call issued, in order
    txn,        \* history: "commit" while the last transaction event is a
                \* successful commit, "other" after any other, "none" before
    thr,        \* cursor -> where the thread that uses it stands in the
                \* method it is running (idle in the one-thread runs)
    pending,    \* history: an odbExecute was issued since the last
                \* successful odbCommit, and no odbRollback after it
    stmt        \* history: cursor -> the last odbPrepare or odbPrepareProc
                \* attempt on its handle, its text and whether it succeeded

vars ==
    <<conn, cur, allocated, site, frees, srv, last, calls, txn, thr, pending,
      stmt>>

\* ------------------------------------------------------------------ bounds

\* Handles the library can hand out in one run: the session handle and the
\* two handles one Connection.cursor call allocates.  From 5 on, both
\* cursors of Cursors can exist together.
MaxHandles == 3

\* ------------------------------------------------------------- identities

Cursors == {"c1", "c2"}
Handles == 1..MaxHandles
NoHandle == 0
None == "None"

\* Exceptions, by the class the caller sees.  "Classified" is whatever
\* errors.get_exception(handle) builds from the handle's error state.
OK == "ok"
InterfaceError == "InterfaceError"
Classified == "get_exception"

\* A library call: the function and the handle it was given.
Call(f, h) == [f |-> f, h |-> h, col |-> 0, final |-> FALSE, arg |-> None]

\* The calls of a method that stopped at its k-th call (0: ran them all).
UpTo(cs, k) == IF k = 0 THEN cs ELSE SubSeq(cs, 1, k)

Count(cs, f) == Cardinality({i \in 1..Len(cs) : cs[i].f = f})

\* Index of the first call of f in cs, 0 when there is none.
First(cs, f) ==
    IF Count(cs, f) = 0 THEN 0
    ELSE CHOOSE i \in 1..Len(cs) :
            cs[i].f = f /\ \A j \in 1..(i - 1) : cs[j].f # f

\* ---------------------------------------------------------------- objects

\* Cursor.description: None until an execution stores the list of columns
\* (each column by its type_code).
NoDescription == [none |-> TRUE, cols |-> <<>>]
Description(cols) == [none |-> FALSE, cols |-> cols]

NoConnection ==
    [st |-> "none", open |-> FALSE, committed |-> FALSE, handle |-> NoHandle]

NoCursor ==
    [st |-> "none", open |-> FALSE, handle |-> NoHandle, arraysize |-> 1,
     description |-> NoDescription, prepared_operation |-> None,
     input_sizes |-> <<>>, rowcount |-> -1]

\* Cursor.__init__ after a successful odbAllocate(connection.handle).
NewCursor(h) ==
    [st |-> "live", open |-> TRUE, handle |-> h, arraysize |-> 1,
     description |-> NoDescription, prepared_operation |-> None,
     input_sizes |-> <<>>, rowcount |-> -1]

\* A Cursor object that has been destroyed: only the handle it held and
\* whether it was still open (its close failed) are kept.
Destroyed(h, open) == [NoCursor EXCEPT !.st = "dead", !.handle = h, !.open = open]

\* The library's result state of a handle: the columns of the current result
\* set as (SQL type, ODB type) pairs, the rows not yet fetched, and the
\* result sets after this one.
NoResult == [cols |-> <<>>, rows |-> 0, more |-> 0]

\* frees after odbFree(h).  The count stops at "twice or more".
Freed(h) == [frees EXCEPT ![h] = IF @ < 2 THEN @ + 1 ELSE @]

\* What the last operation was and how it ended.  rows are the parameter
\* rows an execute method was given, rc the row count the library reported
\* to it (-1: none read); ret is what a fetch method returned and msg what
\* the Warning it raised was built from; text is the operation or procedure
\* name an execute method was given.
Op(name, who) ==
    [op |-> name, who |-> who, res |-> OK,
     wasOpen |-> IF who = "conn" THEN conn.open
                 ELSE cur[who].open /\ conn.open,
     wasCommitted |-> conn.committed, arg |-> 0, ret |-> <<>>,
     rows |-> <<>>, rc |-> -1, msg |-> <<>>, text |-> None]

\* The transaction events are the library's commit, rollback and execute
\* calls.  txn records whether the last of them was a commit that succeeded.
TxnEvents == {"odbCommit", "odbRollback", "odbExecute"}
\* The last transaction event among the calls cs, "none" without one.
LastEvent(cs) ==
    LET ev == {i \in 1..Len(cs) : cs[i].f \in TxnEvents}
    IN  IF ev = {} THEN "none"
        ELSE cs[CHOOSE i \in ev : \A j \in ev : j <= i].f

\* pending after a method call: work is pending after an odbExecute with no
\* rollback after it (a method whose odbExecute fails goes on to the
\* rollback); a rollback that was issued is counted as one that succeeded;
\* a commit that failed leaves what was pending.
PendingAfter(cs, res) ==
    CASE LastEvent(cs) = "odbExecute" -> TRUE
      [] LastEvent(cs) = "odbRollback" -> FALSE
      [] LastEvent(cs) = "odbCommit" -> IF res = OK THEN FALSE ELSE pending
      [] OTHER -> pending

\* No prepare was attempted yet on a cursor's handle.
NoStatement == [text |-> None, ok |-> FALSE]

\* The calls that prepare a statement on a handle.
PrepareFuncs == {"odbPrepare", "odbPrepareProc"}

\* The last prepare attempt among the calls cs on handle h, when the method
\* ended with res: a call that failed is the last call of its method or is
\* followed by the rollback, and the method raises the classified error.
StatementAfter(old, cs, h, res) ==
    LET ps == {i \in 1..Len(cs) : cs[i].f \in PrepareFuncs /\ cs[i].h = h}
        p  == CHOOSE i \in ps : \A j \in ps : j <= i
    IN  IF ps = {} \/ h = NoHandle THEN old
        ELSE [text |-> cs[p].arg,
              ok |-> ~(/\ res = Classified
                       /\ \/ p = Len(cs)
                          \/ cs[p + 1].f = "odbRollback")]

TxnEvent ==
    /\ stmt' = [c \in Cursors |->
                    StatementAfter(stmt[c], calls', cur[c].handle, last'.res)]
    /\ txn' = IF LastEvent(calls') # "none"
              THEN IF last'.op = "Connection.commit" /\ last'.res = OK
                   THEN "commit" ELSE "other"
              ELSE txn
    /\ pending' = PendingAfter(calls', last'.res)

\* A thread between two method calls.  pc: the place in the method; steps,
\* i: the script of the method and the step it is at; done: the thread has
\* run an execution to its end.
ThreadIdle ==
    [pc |-> "idle", operation |-> None, steps |-> <<>>, i |-> 0,
     done |-> FALSE]

\* A whole method call: no thread is inside a method before or after it.
Txn == TxnEvent /\ UNCHANGED thr

Init ==
    /\ txn = "none"
    /\ thr = [c \in Cursors |-> ThreadIdle]
    /\ pending = FALSE
    /\ stmt = [c \in Cursors |-> NoStatement]
    /\ conn = NoConnection
    /\ cur = [c \in Cursors |-> NoCursor]
    /\ allocated = 0
    /\ site = [h \in Handles |-> "none"]
    /\ frees = [h \in Handles |-> 0]
    /\ srv = [c \in Cursors |-> NoResult]
    /\ last = [op |-> "init", who |-> "conn", res |-> OK, wasOpen |-> FALSE,
               wasCommitted |-> FALSE, arg |-> 0, ret |-> <<>>,
               rows |-> <<>>, rc |-> -1, msg |-> <<>>, text |-> None]
    /\ calls = <<>>

\* ------------------------------------------------------------- Connection

\* A variant of the test below that never raises.
assert_connection_is_open_skipped(c) == TRUE

\* Connection._assert_connection_is_open: TRUE when it returns, FALSE when
\* it raises InterfaceError.
assert_connection_is_open(c) == c.open

\* The calls Connection.__init__ makes when every one succeeds: allocate,
\* login, _get_driver, then _set_attributes (the last one only for a driver
\* that is not known to lack transactions).
ConnectCalls(h, transactional) ==
    <<Call("odbAllocate", NoHandle), Call("odbLogin", h),
      Call("odbGetAttrText", h), Call("odbLoadDataTypes", h),
      [Call("odbSetAttrLong", h) EXCEPT !.arg = "ODB_ATTR_DESCRIBEPARAMS"],
      [Call("odbSetAttrLong", h) EXCEPT !.arg = "ODB_ATTR_FULLCOLINFO"],
      Call("odbUseRowCache", h)>>
    \o (IF transactional
        THEN <<[Call("odbSetAttrLong", h) EXCEPT !.arg = "ODB_ATTR_TRANSACTIONS"]>>
        ELSE <<>>)

\* Connection.__init__: failAt is the call whose failure is detected (0:
\* none).  The result of odbGetAttrText (call 3) is not looked at, so it
\* cannot stop __init__: driverOk says whether that call succeeded.  ret
\* records the status of every call made.  When __init__ raises, the caller
\* gets no object ("failed"); __del__ then finds open False and releases
\* nothing.
Connection_init(failAt, transactional, driverOk) ==
    LET h  == allocated + 1
        cs == ConnectCalls(h, transactional)
    IN  /\ conn.st = "none"
        /\ allocated < MaxHandles
        /\ failAt \in 0..Len(cs)
        /\ failAt # 3
        /\ driverOk \/ failAt \notin 1..2
        /\ calls' = UpTo(cs, failAt)
        /\ IF failAt = 1
           THEN UNCHANGED <<allocated, site>>
           ELSE /\ allocated' = h
                /\ site' = [site EXCEPT ![h] = "Connection.__init__"]
        /\ conn' = IF failAt = 0
                   THEN [st |-> "live", open |-> TRUE, committed |-> FALSE,
                         handle |-> h]
                   ELSE [conn EXCEPT !.st = "failed"]
        /\ last' = [Op("connect", "conn") EXCEPT
                        !.res = IF failAt = 0 THEN OK ELSE Classified,
                        !.ret = [i \in 1..Len(UpTo(cs, failAt)) |->
                                    IF i = 3 THEN driverOk ELSE i # failAt]]
        /\ UNCHANGED <<cur, frees, srv>>
        /\ Txn

\* Connection.rollback: what it calls and how it ends.
Connection_rollback_run(ok) ==
    IF ~assert_connection_is_open(conn)
    THEN [calls |-> <<>>, res |-> InterfaceError]
    ELSE [calls |-> <<Call("odbRollback", conn.handle)>>,
          res |-> IF ok THEN OK ELSE Classified]

\* A variant of commit that sets committed before it looks at the status
\* of odbCommit.
Connection_commit_run_flag_first(ok) ==
    IF ~assert_connection_is_open(conn)
    THEN [calls |-> <<>>, res |-> InterfaceError, committed |-> conn.committed]
    ELSE [calls |-> <<Call("odbCommit", conn.handle)>>,
          res |-> IF ok THEN OK ELSE Classified,
          committed |-> TRUE]

\* Connection.commit: what it calls, how it ends, the committed flag after.
Connection_commit_run(ok) ==
    IF ~assert_connection_is_open(conn)
    THEN [calls |-> <<>>, res |-> InterfaceError, committed |-> conn.committed]
    ELSE [calls |-> <<Call("odbCommit", conn.handle)>>,
          res |-> IF ok THEN OK ELSE Classified,
          committed |-> IF ok THEN TRUE ELSE conn.committed]

\* A variant of the test below that rolls back whatever committed is.
close_always_rolls_back(c) == TRUE

\* Connection.close's test for the implicit rollback: if not self.committed.
close_rolls_back(c) == ~c.committed

\* Connection.close: the implicit rollback, then open = False, the forced
\* logout, odbFree and del self.handle.
Connection_close_run(rbOk, loOk) ==
    IF ~assert_connection_is_open(conn)
    THEN [calls |-> <<>>, res |-> InterfaceError, conn |-> conn, freed |-> FALSE]
    ELSE LET rb == IF close_rolls_back(conn) THEN Connection_rollback_run(rbOk)
                   ELSE [calls |-> <<>>, res |-> OK]
         IN  IF rb.res # OK
             THEN [calls |-> rb.calls, res |-> rb.res, conn |-> conn,
                   freed |-> FALSE]
             ELSE IF ~loOk
             THEN [calls |-> rb.calls \o <<Call("odbLogout", conn.handle)>>,
                   res |-> Classified,
                   conn |-> [conn EXCEPT !.open = FALSE], freed |-> FALSE]
             ELSE [calls |-> rb.calls \o <<Call("odbLogout", conn.handle),
                                           Call("odbFree", conn.handle)>>,
                   res |-> OK,
                   conn |-> [conn EXCEPT !.open = FALSE, !.handle = NoHandle],
                   freed |-> TRUE]

Connection_close(rbOk, loOk) ==
    LET r == Connection_close_run(rbOk, loOk)
    IN  /\ conn.st = "live"
        /\ conn' = r.conn
        /\ calls' = r.calls
        /\ frees' = IF r.freed THEN Freed(conn.handle)
                    ELSE frees
        /\ last' = [Op("Connection.close", "conn") EXCEPT !.res = r.res]
        /\ UNCHANGED <<cur, allocated, site, srv>>
        /\ Txn

Connection_commit(ok) ==
    LET r == Connection_commit_run(ok)
    IN  /\ conn.st = "live"
        /\ conn' = [conn EXCEPT !.committed = r.committed]
        /\ calls' = r.calls
        /\ last' = [Op("Connection.commit", "conn") EXCEPT !.res = r.res]
        /\ UNCHANGED <<cur, allocated, site, frees, srv>>
        /\ Txn

Connection_rollback(ok) ==
    LET r == Connection_rollback_run(ok)
    IN  /\ conn.st = "live"
        /\ calls' = r.calls
        /\ last' = [Op("Connection.rollback", "conn") EXCEPT !.res = r.res]
        /\ UNCHANGED <<conn, cur, allocated, site, frees, srv>>
        /\ Txn

\* Connection.__del__: close() if still open; what close raises is dropped.
\* A Cursor holds a reference to its Connection, so the Connection is
\* destroyed only after its cursors.
Connection_del(rbOk, loOk) ==
    LET r == Connection_close_run(rbOk, loOk)
    IN  /\ conn.st = "live"
        /\ \A c \in Cursors : cur[c].st # "live"
        /\ IF conn.open
           THEN /\ conn' = [r.conn EXCEPT !.st = "dead"]
                /\ calls' = r.calls
                /\ frees' = IF r.freed
                            THEN Freed(conn.handle)
                            ELSE frees
                /\ last' = [Op("Connection.__del__", "conn") EXCEPT !.res = r.res]
           ELSE /\ conn' = [conn EXCEPT !.st = "dead"]
                /\ calls' = <<>>
                /\ frees' = frees
                /\ last' = Op("Connection.__del__", "conn")
        /\ UNCHANGED <<cur, allocated, site, srv>>
        /\ Txn

\* ------------------------------------------------------ Cursor lifecycle

\* The identity the next Cursor object gets.
FreshCursor == IF cur["c1"].st = "none" THEN "c1" ELSE "c2"

\* Connection.cursor: odbAllocate(self.handle) into a local, then Cursor(self),
\* whose __init__ calls odbAllocate(connection.handle) again for the handle
\* the Cursor keeps.  failAt: 0 none, 1 the first allocate, 2 the second.
Connection_cursor(failAt) ==
    LET c  == FreshCursor
        h1 == allocated + 1
        h2 == allocated + 2
        cs == <<Call("odbAllocate", conn.handle), Call("odbAllocate", conn.handle)>>
    IN  /\ conn.st = "live"
        /\ IF ~assert_connection_is_open(conn)
           THEN /\ failAt = 0
                /\ calls' = <<>>
                /\ last' = [Op("Connection.cursor", "conn") EXCEPT
                                !.res = InterfaceError]
                /\ UNCHANGED <<cur, allocated, site>>
           ELSE /\ cur[c].st = "none"
                /\ allocated + 2 <= MaxHandles
                /\ calls' = UpTo(cs, failAt)
                /\ last' = [Op("Connection.cursor", "conn") EXCEPT
                                !.res = IF failAt = 0 THEN OK ELSE Classified]
                /\ allocated' = CASE failAt = 0 -> h2
                                  [] failAt = 1 -> allocated
                                  [] failAt = 2 -> h1
                /\ site' = CASE failAt = 0 ->
                                    [site EXCEPT ![h1] = "Connection.cursor",
                                                 ![h2] = "Cursor.__init__"]
                             [] failAt = 1 -> site
                             [] failAt = 2 ->
                                    [site EXCEPT ![h1] = "Connection.cursor"]
                /\ cur' = IF failAt = 0 THEN [cur EXCEPT ![c] = NewCursor(h2)]
                          ELSE cur
        /\ UNCHANGED <<conn, frees, srv>>
        /\ Txn

\* Cursor.close: odbDropQry, odbFree, open = False.  It does not look at
\* self.open first.
Cursor_close_run(c, dropOk) ==
    IF ~dropOk
    THEN [calls |-> <<Call("odbDropQry", cur[c].handle)>>, res |-> Classified,
          open |-> cur[c].open, freed |-> FALSE]
    ELSE [calls |-> <<Call("odbDropQry", cur[c].handle),
                      Call("odbFree", cur[c].handle)>>,
          res |-> OK, open |-> FALSE, freed |-> TRUE]

Cursor_close(c, dropOk) ==
    LET r == Cursor_close_run(c, dropOk)
    IN  /\ cur[c].st = "live"
        /\ cur' = [cur EXCEPT ![c].open = r.open]
        /\ frees' = IF r.freed THEN Freed(cur[c].handle)
                    ELSE frees
        /\ calls' = r.calls
        /\ last' = [Op("Cursor.close", c) EXCEPT
                        !.res = r.res, !.wasOpen = cur[c].open]
        /\ UNCHANGED <<conn, allocated, site, srv>>
        /\ Txn

\* Cursor.__del__: close() if self.open; what close raises is dropped.
Cursor_del(c, dropOk) ==
    LET r == Cursor_close_run(c, dropOk)
    IN  /\ cur[c].st = "live"
        /\ IF cur[c].open
           THEN /\ cur' = [cur EXCEPT ![c] = Destroyed(cur[c].handle, r.open)]
                /\ frees' = IF r.freed
                            THEN Freed(cur[c].handle)
                            ELSE frees
                /\ calls' = r.calls
                /\ last' = [Op("Cursor.__del__", c) EXCEPT
                                !.res = r.res, !.wasOpen = TRUE]
           ELSE /\ cur' = [cur EXCEPT ![c] = Destroyed(cur[c].handle, FALSE)]
                /\ frees' = frees
                /\ calls' = <<>>
                /\ last' = [Op("Cursor.__del__", c) EXCEPT !.wasOpen = FALSE]
        /\ UNCHANGED <<conn, allocated, site, srv>>
        /\ Txn

\* ------------------------------------------------------ type descriptors

\* Exceptions raised by the driver itself.
DataError == "DataError"
ProgrammingError == "ProgrammingError"
AttributeError == "AttributeError"
NameError == "NameError"
TypeError == "TypeError"

\* A parameter value is modelled by its Python type; "other" stands for
\* every type get_db_api_type has no branch for (unicode, long, list, ...).
\* A _DbApiTypeObject instance as its class attributes leave it: not bound.
Descriptor(cls, sub_type, set_func) ==
    [cls |-> cls, sub_type |-> sub_type, odb_set_func |-> set_func,
     cursor |-> None, col_number |-> 0, final |-> FALSE, bound |-> FALSE]

\* NUMBER.__init__: only 'int', 'float' and 'decimal' are accepted; the
\* default sub_type 'numeric' falls to the else branch and raises.
NUMBER(sub_type) ==
    CASE sub_type = "int" ->
            [exc |-> OK, d |-> Descriptor("NUMBER", "int", "odbSetParamLongLong")]
      [] sub_type = "float" ->
            [exc |-> OK, d |-> Descriptor("NUMBER", "float", "odbSetParamDouble")]
      [] sub_type = "decimal" ->
            [exc |-> OK, d |-> Descriptor("NUMBER", "decimal", "odbSetParamText")]
      [] OTHER ->
            [exc |-> ProgrammingError, d |-> Descriptor("NUMBER", sub_type, None)]

\* DATETIME.__init__.
DATETIME(sub_type) ==
    IF sub_type \in {"datetime", "timestamp", "date", "time"}
    THEN [exc |-> OK, d |-> Descriptor("DATETIME", sub_type, "odbSetParamText")]
    ELSE [exc |-> ProgrammingError, d |-> Descriptor("DATETIME", sub_type, None)]

\* The classes of host values that have a base class other than object:
\* types.py declares class Binary(str); datetime derives from date and bool
\* from int.
PyBases == ("Binary" :> "str") @@ ("datetime" :> "date") @@ ("bool" :> "int")

\* isinstance(value, cls) for a value of type t.
RECURSIVE isinstance(_, _)
isinstance(t, cls) ==
    \/ t = cls
    \/ t \in DOMAIN PyBases /\ isinstance(PyBases[t], cls)

\* get_db_api_type: the descriptor for a host value, or the exception
\* raised; the tests are made in the order of the source.
get_db_api_type(value) ==
    IF value = "NoneType"
    THEN [exc |-> OK, d |-> Descriptor("_DbApiTypeObject", None, None)]
    ELSE IF isinstance(value, "Binary")
    THEN [exc |-> OK, d |-> Descriptor("BINARY", None, "odbSetParamText")]
    ELSE IF isinstance(value, "str")
    THEN [exc |-> OK, d |-> Descriptor("STRING", None, "odbSetParamText")]
    ELSE IF isinstance(value, "datetime") THEN DATETIME("datetime")
    ELSE IF isinstance(value, "date") THEN DATETIME("date")
    ELSE IF isinstance(value, "time") THEN DATETIME("time")
    ELSE IF isinstance(value, "int") THEN NUMBER("int")
    ELSE IF isinstance(value, "Decimal") THEN NUMBER("numeric")
    ELSE IF isinstance(value, "float") THEN NUMBER("float")
    ELSE [exc |-> DataError, d |-> Descriptor("_DbApiTypeObject", None, None)]

\* The size attribute of the descriptor get_db_api_type makes for a value
\* of length len: len(value) for STRING and BINARY, the fixed sizes of
\* DATETIME, and the class attribute 0 otherwise.
size_of(d, len) ==
    CASE d.cls \in {"STRING", "BINARY"} -> len
      [] d.cls = "DATETIME" /\ d.sub_type \in {"datetime", "timestamp"} -> 22
      [] d.cls = "DATETIME" /\ d.sub_type = "date" -> 10
      [] d.cls = "DATETIME" /\ d.sub_type = "time" -> 11
      [] OTHER -> 0

\* --------------------------------------------------- a method as a script

\* A method body between its first and its last library call is a sequence
\* of steps: a library call that reports a status (on failure the method
\* rolls the connection back and raises), or a raise of the driver's own.
CallStep(call, tag, idx) ==
    [k |-> "call", call |-> call, exc |-> OK, tag |-> tag, idx |-> idx]
RaiseStep(exc) ==
    [k |-> "raise", call |-> Call("none", NoHandle), exc |-> exc,
     tag |-> "raise", idx |-> 0]

\* Runs steps from step i on; the k-th status call from here fails (0: none).
\* n is the number of steps completed; res is OK, "failed" (a call failed,
\* and it is the last of calls) or the exception of a raise step.
RECURSIVE RunSteps(_, _, _, _)
RunSteps(steps, i, k, acc) ==
    IF i > Len(steps) THEN [n |-> Len(steps), calls |-> acc, res |-> OK]
    ELSE IF steps[i].k = "raise"
    THEN [n |-> i - 1, calls |-> acc, res |-> steps[i].exc]
    ELSE IF k = 1
    THEN [n |-> i - 1, calls |-> Append(acc, steps[i].call), res |-> "failed"]
    ELSE RunSteps(steps, i + 1, IF k = 0 THEN 0 ELSE k - 1,
                  Append(acc, steps[i].call))

\* _DbApiTypeObject.bind_to_column's library call.
BindCall(h, cls, col_number, total_cols) ==
    [f |-> "odbBindParamEx", h |-> h, col |-> col_number,
     final |-> (col_number = total_cols), arg |-> cls]

\* What map(None, input_sizes, parameters) pairs with a value that has no
\* size hint: None.
NoDescriptor == Descriptor(None, None, None)

\* A variant of SetStep that does not look at d.bound: a descriptor that was
\* never bound sets through the column and handle its class attributes name.
SetStep_without_bound_check(d, value, idx) ==
    IF d.cls = None THEN RaiseStep(AttributeError)
    ELSE CallStep([f |-> IF value = "NoneType" THEN "odbSetParamNull"
                         ELSE d.odb_set_func,
                   h |-> IF d.bound THEN cur[d.cursor].handle ELSE NoHandle,
                   col |-> d.col_number,
                   final |-> d.final, arg |-> value], "set", idx)

\* _DbApiTypeObject.set_parameter on descriptor d: InterfaceError when d is
\* not bound, else odbSetParamNull for None and d's own setter otherwise.
\* A descriptor of None (map(None, ...) padding) has no set_parameter.
SetStep(d, value, idx) ==
    IF d.cls = None THEN RaiseStep(AttributeError)
    ELSE IF ~d.bound THEN RaiseStep(InterfaceError)
    ELSE CallStep([f |-> IF value = "NoneType" THEN "odbSetParamNull"
                         ELSE d.odb_set_func,
                   h |-> cur[d.cursor].handle, col |-> d.col_number,
                   final |-> d.final, arg |-> value], "set", idx)

\* The descriptor after a successful bind_to_column(cursor, col, total).
Bound(d, c, col_number, total_cols) ==
    [d EXCEPT !.cursor = c, !.col_number = col_number,
              !.final = (col_number = total_cols), !.bound = TRUE]

\* ------------------------------------------------------ result description

\* odbtp.constants: the ODB type codes get_odb_type names.
ODB_CHAR == 1
ODB_NUMERIC == 2
ODB_DATE == 9
ODB_TIME == 10
ODB_WCHAR == -8

\* A variant of get_odb_type that trusts the ODB type as reported.
get_odb_type_as_reported(sql_type, odb_type) == odb_type

\* get_odb_type: a column's type from its SQL type and its ODB type.
get_odb_type(sql_type, odb_type) ==
    IF sql_type = odb_type THEN odb_type
    ELSE IF sql_type = 91 /\ odb_type = ODB_CHAR THEN ODB_DATE
    ELSE IF sql_type = 92 /\ odb_type = ODB_CHAR THEN ODB_TIME
    ELSE IF sql_type = -9 /\ odb_type = ODB_WCHAR THEN ODB_CHAR
    ELSE IF sql_type = 2 /\ odb_type = 1 THEN ODB_NUMERIC
    ELSE odb_type

\* Cursor._update_description: the accessor calls it makes on handle h when
\* the library's result state is r, and the description it stores (the
\* type_code of each column; the name is not modelled, the other five
\* items are None).
update_description_calls(h, r) ==
    <<Call("odbGetTotalCols", h)>> \o
    [j \in 1..(3 * Len(r.cols)) |->
        [f |-> CASE (j - 1) % 3 = 0 -> "odbColName"
                 [] (j - 1) % 3 = 1 -> "odbColSqlType"
                 [] OTHER -> "odbColDataType",
         h |-> h, col |-> ((j - 1) \div 3) + 1, final |-> FALSE, arg |-> None]]

update_description(r) ==
    Description([i \in 1..Len(r.cols) |->
                    get_odb_type(r.cols[i].sql, r.cols[i].odb)])

\* ------------------------------------------------------- Cursor execution

\* Cursor._assert_cursor_is_open: TRUE when it returns, FALSE when it raises
\* InterfaceError.
assert_cursor_is_open(c) == cur[c].open /\ conn.open

\* One parameter row without size hints: infer and bind every value, then
\* set every value, then execute.  total_cols is len(seq_of_parameters[0]).
InferredRow(c, row, total_cols) ==
    [i \in 1..Len(row) |->
        IF get_db_api_type(row[i]).exc # OK
        THEN RaiseStep(get_db_api_type(row[i]).exc)
        ELSE CallStep(BindCall(cur[c].handle, get_db_api_type(row[i]).d.cls,
                               i, total_cols), "bind", i)]
    \o [i \in 1..Len(row) |->
        SetStep(Bound(get_db_api_type(row[i]).d, c, i, total_cols), row[i], i)]
    \o <<CallStep(Call("odbExecute", cur[c].handle), "exec", 0)>>

\* One parameter row with size hints: map(None, input_sizes, parameters)
\* pairs them, padding the shorter with None; no bind.
HintedRow(c, hints, row) ==
    LET n == IF Len(hints) > Len(row) THEN Len(hints) ELSE Len(row)
    IN  [i \in 1..n |->
            SetStep(IF i <= Len(hints) THEN hints[i] ELSE NoDescriptor,
                    IF i <= Len(row) THEN row[i] ELSE "NoneType", i)]
        \o <<CallStep(Call("odbExecute", cur[c].handle), "exec", 0)>>

RECURSIVE RowSteps(_, _, _, _, _)
RowSteps(c, hints, rows, i, total_cols) ==
    IF i > Len(rows) THEN <<>>
    ELSE (IF hints # <<>> THEN HintedRow(c, hints, rows[i])
          ELSE InferredRow(c, rows[i], total_cols))
         \o RowSteps(c, hints, rows, i + 1, total_cols)

\* A variant of PrepareSteps that sends nothing to the library.
PrepareSteps_sending_nothing(c, operation, hints, total_cols) == <<>>

\* Cursor._prepare_operation as steps: odbPrepare, then one bind per size
\* hint that survives the prepare.
PrepareSteps(c, operation, hints, total_cols) ==
    <<CallStep([Call("odbPrepare", cur[c].handle) EXCEPT !.arg = operation],
               "prepare", 0)>>
    \o [i \in 1..Len(hints) |->
            CallStep(BindCall(cur[c].handle, hints[i].cls, i, total_cols),
                     "hintbind", i)]

\* The size hints _prepare_operation binds: cleared when an older prepared
\* operation is still recorded.
HintsToBind(c) ==
    IF cur[c].prepared_operation # None THEN <<>> ELSE cur[c].input_sizes

\* The size hints after a prepare phase that completed n steps of which
\* `failed` says whether step n + 1 was a call that failed.
HintsAfterPrepare(c, hints, n, failed, total_cols) ==
    [i \in 1..Len(hints) |->
        IF i + 1 <= n THEN Bound(hints[i], c, i, total_cols)
        ELSE IF i + 1 = n + 1 /\ failed
        THEN [Bound(hints[i], c, i, total_cols) EXCEPT !.bound = FALSE]
        ELSE hints[i]]

\* The status calls a run over rows can make at most: the prepare, then a
\* bind and a set for every value and an execute for every row.
RECURSIVE StatusCalls(_)
StatusCalls(rows) ==
    IF rows = <<>> THEN 1
    ELSE 2 * Len(Head(rows)) + 1 + StatusCalls(Tail(rows))

\* A variant of total_cols_of that takes no rows for rows of no columns.
total_cols_of_no_rows(rows) == IF Len(rows) = 0 THEN 0 ELSE Len(rows[1])

\* total_cols = len(seq_of_parameters[0]); -1 when the index raises
\* IndexError, which executemany turns into InterfaceError.
total_cols_of(rows) == IF Len(rows) = 0 THEN -1 ELSE Len(rows[1])

\* Cursor.executemany.  failAt: which status call fails (0: none); rbOk: the
\* rollback after a failure succeeds; result, rc: the result state and the
\* row count the library holds after the last execute.
Cursor_executemany_run(c, operation, rows, failAt, rbOk, result, rc) ==
    LET same == [calls |-> <<>>, cur |-> cur[c], committed |-> conn.committed,
                 srv |-> srv[c], hit |-> FALSE, rows |-> rows, rc |-> -1,
                 text |-> operation]
    IN
    IF ~assert_cursor_is_open(c)
    THEN same @@ [res |-> InterfaceError]
    ELSE IF total_cols_of(rows) = -1
    THEN same @@ [res |-> InterfaceError]
    ELSE
    LET total_cols == total_cols_of(rows)
        prep    == operation # cur[c].prepared_operation
        toBind  == HintsToBind(c)
        pre     == IF prep THEN PrepareSteps(c, operation, toBind, total_cols)
                   ELSE <<>>
        hints   == IF prep
                   THEN [i \in 1..Len(toBind) |->
                            Bound(toBind[i], c, i, total_cols)]
                   ELSE cur[c].input_sizes
        steps   == pre \o RowSteps(c, hints, rows, 1, total_cols)
        run     == RunSteps(steps, 1, failAt, <<>>)
        failed  == run.res = "failed"
        rb      == Connection_rollback_run(rbOk)
        prepared == prep /\ run.n >= 1
        npre    == IF run.n < Len(pre) THEN run.n ELSE Len(pre)
        cur1    == IF prepared
                   THEN [cur[c] EXCEPT
                            !.prepared_operation = operation,
                            !.input_sizes =
                                HintsAfterPrepare(c, toBind, npre,
                                    failed /\ run.n < Len(pre), total_cols)]
                   ELSE cur[c]
    IN  IF run.res = OK
        THEN [res |-> OK,
              calls |-> run.calls \o update_description_calls(cur[c].handle, result)
                        \o <<Call("odbGetRowCount", cur[c].handle)>>,
              cur |-> [cur1 EXCEPT !.description = update_description(result),
                                   !.rowcount = rc],
              committed |-> FALSE,
              srv |-> result, hit |-> FALSE, rows |-> rows,
              rc |-> rc, text |-> operation]
        ELSE [res |-> IF failed THEN Classified ELSE run.res,
              calls |-> IF failed THEN run.calls \o rb.calls ELSE run.calls,
              cur |-> cur1,
              committed |-> conn.committed,
              srv |-> IF run.n >= 1 THEN NoResult ELSE srv[c], hit |-> failed,
              rows |-> rows, rc |-> -1, text |-> operation]

\* The library's part in outcome r was played: the failure it was to report
\* was reached (r.hit), or none was chosen, and a result was chosen only
\* for a run that got to read it.  A choice the run never reached gives the
\* outcome of the run without it, which is taken once.
Reached(r, failAt, rbOk, result, rc) ==
    \/ r.hit
    \/ failAt = 0 /\ rbOk /\ (r.res = OK \/ (result = NoResult /\ rc = -1))

\* A variant of Apply that leaves connection.committed as it was.
Apply_keeping_committed(c, name, r, arg) ==
    /\ cur' = [cur EXCEPT ![c] = r.cur]
    /\ conn' = conn
    /\ srv' = [srv EXCEPT ![c] = r.srv]
    /\ calls' = r.calls
    /\ last' = [Op(name, c) EXCEPT !.res = r.res, !.arg = arg,
                                   !.rows = r.rows, !.rc = r.rc,
                                   !.text = r.text]
    /\ UNCHANGED <<allocated, site, frees>>
    /\ Txn

\* Applies the outcome r of a method of cursor c.
Apply(c, name, r, arg) ==
    /\ cur' = [cur EXCEPT ![c] = r.cur]
    /\ conn' = [conn EXCEPT !.committed = r.committed]
    /\ srv' = [srv EXCEPT ![c] = r.srv]
    /\ calls' = r.calls
    /\ last' = [Op(name, c) EXCEPT !.res = r.res, !.arg = arg,
                                   !.rows = r.rows, !.rc = r.rc,
                                   !.text = r.text]
    /\ UNCHANGED <<allocated, site, frees>>
    /\ Txn

Cursor_executemany(c, operation, rows, failAt, rbOk, result, rc) ==
    LET r == Cursor_executemany_run(c, operation, rows, failAt, rbOk, result, rc)
    IN  /\ cur[c].st = "live"
        /\ Reached(r, failAt, rbOk, result, rc)
        /\ Apply(c, "Cursor.executemany", r, Len(rows))

\* Cursor.execute: executemany(operation, (parameters,)).
Cursor_execute(c, operation, parameters, failAt, rbOk, result, rc) ==
    LET r == Cursor_executemany_run(c, operation, <<parameters>>, failAt, rbOk,
                                    result, rc)
    IN  /\ cur[c].st = "live"
        /\ Reached(r, failAt, rbOk, result, rc)
        /\ Apply(c, "Cursor.execute", r, 1)

\* Cursor.callproc.  It does not assert that the cursor is open.  It calls
\* odbPrepareProc(procname) without the handle, so the call is not on this
\* cursor's handle; each parameter gets a fresh descriptor from
\* get_db_api_type, never bound, and set_parameter is called on it.
Cursor_callproc_run(c, procname, parameters, failAt, rbOk, result, rc) ==
    LET cur0  == [cur[c] EXCEPT !.input_sizes = <<>>,
                                !.prepared_operation = None]
        steps == <<CallStep([Call("odbPrepareProc", NoHandle) EXCEPT
                                !.arg = procname], "prepare", 0)>>
                 \o [i \in 1..Len(parameters) |->
                        IF get_db_api_type(parameters[i]).exc # OK
                        THEN RaiseStep(get_db_api_type(parameters[i]).exc)
                        ELSE SetStep(get_db_api_type(parameters[i]).d,
                                     parameters[i], i)]
                 \o <<CallStep(Call("odbExecute", cur[c].handle), "exec", 0)>>
        run   == RunSteps(steps, 1, failAt, <<>>)
        rb    == Connection_rollback_run(rbOk)
    IN  IF run.res = OK
        THEN [res |-> OK,
              calls |-> run.calls \o update_description_calls(cur[c].handle, result)
                        \o <<Call("odbGetRowCount", cur[c].handle)>>,
              cur |-> [cur0 EXCEPT !.description = update_description(result),
                                   !.rowcount = rc],
              committed |-> FALSE,
              srv |-> result, hit |-> FALSE,
              rows |-> <<parameters>>, rc |-> rc, text |-> procname]
        ELSE IF run.res = "failed"
        THEN [res |-> IF rb.res = InterfaceError THEN InterfaceError
                      ELSE Classified,
              calls |-> run.calls \o rb.calls,
              cur |-> cur0, committed |-> conn.committed,
              srv |-> IF run.n >= 1 THEN NoResult ELSE srv[c], hit |-> TRUE,
              rows |-> <<parameters>>, rc |-> -1, text |-> procname]
        ELSE [res |-> run.res, calls |-> run.calls,
              cur |-> cur0, committed |-> conn.committed,
              srv |-> IF run.n >= 1 THEN NoResult ELSE srv[c], hit |-> FALSE,
              rows |-> <<parameters>>, rc |-> -1, text |-> procname]

Cursor_callproc(c, procname, parameters, failAt, rbOk, result, rc) ==
    LET r == Cursor_callproc_run(c, procname, parameters, failAt, rbOk,
                                 result, rc)
    IN  /\ cur[c].st = "live"
        /\ Reached(r, failAt, rbOk, result, rc)
        /\ Apply(c, "Cursor.callproc", r, Len(parameters))

\* ------------------------------------------------------------ size hints

\* connection.py line 349 tests isinstance(item, DbApiTypeObject).  No module
\* connection.py imports defines that name: types.py defines
\* _DbApiTypeObject, which "from odbtp.types import *" leaves out.  Looking
\* the name up raises NameError.
DbApiTypeObject_is_defined == FALSE

\* An argument of setinputsizes: a Type Object instance or something else
\* (an int, None).
IsTypeObject(item) == item.cls \notin {None, "int"}

\* Cursor.setinputsizes(*sizes): the outcome and the cursor after.
Cursor_setinputsizes_run(c, sizes) ==
    LET bad == {i \in 1..Len(sizes) : ~IsTypeObject(sizes[i])}
    IN  IF Len(sizes) > 0 /\ ~DbApiTypeObject_is_defined
        THEN [res |-> NameError, cur |-> cur[c]]
        ELSE IF bad # {}
        THEN [res |-> InterfaceError, cur |-> cur[c]]
        ELSE [res |-> OK,
              cur |-> [cur[c] EXCEPT !.input_sizes = sizes,
                                     !.prepared_operation = None]]

Cursor_setinputsizes(c, sizes) ==
    LET r == Cursor_setinputsizes_run(c, sizes)
    IN  /\ cur[c].st = "live"
        /\ cur' = [cur EXCEPT ![c] = r.cur]
        /\ calls' = <<>>
        /\ last' = [Op("Cursor.setinputsizes", c) EXCEPT
                        !.res = r.res,
                        !.arg = Cardinality({i \in 1..Len(sizes) :
                                                ~IsTypeObject(sizes[i])}),
                        !.ret = [i \in 1..Len(sizes) |-> sizes[i].cls]]
        /\ UNCHANGED <<conn, allocated, site, frees, srv>>
        /\ Txn

\* Cursor.setoutputsize: pass.
Cursor_setoutputsize(c) ==
    /\ cur[c].st = "live"
    /\ calls' = <<>>
    /\ last' = Op("Cursor.setoutputsize", c)
    /\ UNCHANGED <<conn, cur, allocated, site, frees, srv>>
    /\ Txn

\* ----------------------------------------------------------------- fetch

\* The accessor calls that decode columns 1..n of the current row.
DecodeCalls(h, n) ==
    [j \in 1..(3 * n) |->
        [f |-> CASE (j - 1) % 3 = 0 -> "odbColTruncated"
                 [] (j - 1) % 3 = 1 -> "odbColData"
                 [] OTHER -> "odbColDataLen",
         h |-> h, col |-> ((j - 1) \div 3) + 1, final |-> FALSE, arg |-> None]]

\* The calls of fetchmany at a column reported truncated: the columns before
\* it are decoded, the column is tested and its actual length is read (the
\* call's arg is the length the library returns).
TruncatedCalls(h, trunc) ==
    DecodeCalls(h, trunc.col - 1)
    \o <<[Call("odbColTruncated", h) EXCEPT !.col = trunc.col],
         [Call("odbColActualLen", h) EXCEPT !.col = trunc.col,
                                           !.arg = trunc.len]>>

\* A variant of Truncated that returns the rows got so far.
Truncated_returns_rows(h, got, left, trunc, acc) ==
    [res |-> OK, ret |-> got, left |-> left - 1, msg |-> <<>>,
     calls |-> acc \o TruncatedCalls(h, trunc)]

\* The outcome of fetchmany at a column reported truncated: Warning is
\* raised with a message formatted from the column number and the actual
\* length; the rows got are dropped with the frame.
Truncated(h, got, left, trunc, acc) ==
    [res |-> "Warning", ret |-> <<>>, left |-> left - 1,
     msg |-> <<"Column", trunc.col, "was truncated. Actual size is", trunc.len>>,
     calls |-> acc \o TruncatedCalls(h, trunc)]

\* The loop of Cursor.fetchmany for size n.  left: rows the library still
\* holds; got: rows collected (a row is named by the number of rows that
\* were left when it was fetched); k: the k-th odbFetchRow from here fails
\* (0: none); trunc: the library reports column trunc.col of the
\* trunc.row-th row of this call truncated (row 0: none); acc: the calls so
\* far.  len(self.description) raises TypeError while description is None.
RECURSIVE FetchLoop(_, _, _, _, _, _, _)
FetchLoop(c, n, left, got, k, trunc, acc) ==
    LET h    == cur[c].handle
        desc == cur[c].description
        acc1 == Append(acc, Call("odbFetchRow", h))
        acc2 == Append(acc1, Call("odbNoData", h))
    IN  IF Len(got) >= n
        THEN [res |-> OK, ret |-> got, left |-> left, msg |-> <<>>,
              calls |-> acc]
        ELSE IF k = 1
        THEN [res |-> Classified, ret |-> <<>>, left |-> left, msg |-> <<>>,
              calls |-> acc1]
        ELSE IF left = 0
        THEN [res |-> OK, ret |-> got, left |-> left, msg |-> <<>>,
              calls |-> acc2]
        ELSE IF desc.none
        THEN [res |-> TypeError, ret |-> <<>>, left |-> left - 1, msg |-> <<>>,
              calls |-> acc2]
        ELSE IF trunc.row = Len(got) + 1 /\ trunc.col <= Len(desc.cols)
        THEN Truncated(h, got, left, trunc, acc2)
        ELSE FetchLoop(c, n, left - 1, Append(got, left),
                       IF k = 0 THEN 0 ELSE k - 1, trunc,
                       acc2 \o DecodeCalls(h, Len(desc.cols)))

\* A variant of Cursor_fetchmany_run that fetches one row more than asked.
Cursor_fetchmany_run_one_more(c, size, failAt, trunc) ==
    FetchLoop(c, (IF size = -1 THEN cur[c].arraysize ELSE size) + 1,
              srv[c].rows, <<>>, failAt, trunc, <<>>)

\* Cursor.fetchmany(size); size -1 stands for None (use arraysize).
Cursor_fetchmany_run(c, size, failAt, trunc) ==
    IF ~assert_cursor_is_open(c)
    THEN [res |-> InterfaceError, ret |-> <<>>, left |-> srv[c].rows,
          msg |-> <<>>, calls |-> <<>>]
    ELSE FetchLoop(c, IF size = -1 THEN cur[c].arraysize ELSE size,
                   srv[c].rows, <<>>, failAt, trunc, <<>>)

\* The batch size of fetchall is max(20, self.arraysize).
FetchAllDefault == 20

\* The loop of Cursor.fetchall: fetchmany(size) until a batch is short.
RECURSIVE FetchAllLoop(_, _, _, _, _, _, _)
FetchAllLoop(c, size, left, rows, k, trunc, acc) ==
    LET b     == FetchLoop(c, size, left, <<>>, k, trunc, <<>>)
        nFetch == Count(b.calls, "odbFetchRow")
    IN  IF b.res # OK
        THEN [res |-> b.res, ret |-> <<>>, left |-> b.left, msg |-> b.msg,
              calls |-> acc \o b.calls]
        ELSE IF Len(b.ret) < size
        THEN [res |-> OK, ret |-> rows \o b.ret, left |-> b.left,
              msg |-> <<>>, calls |-> acc \o b.calls]
        ELSE FetchAllLoop(c, size, b.left, rows \o b.ret,
                          IF k = 0 THEN 0 ELSE k - nFetch,
                          [trunc EXCEPT !.row = IF @ = 0 THEN 0 ELSE @ + size],
                          acc \o b.calls)

\* A variant of Cursor_fetchall_run that stops after its first batch.
Cursor_fetchall_run_first_batch(c, failAt, trunc) ==
    FetchLoop(c, IF cur[c].arraysize > FetchAllDefault
                 THEN cur[c].arraysize ELSE FetchAllDefault,
              srv[c].rows, <<>>, failAt, trunc, <<>>)

\* Cursor.fetchall.
Cursor_fetchall_run(c, failAt, trunc) ==
    IF ~assert_cursor_is_open(c)
    THEN [res |-> InterfaceError, ret |-> <<>>, left |-> srv[c].rows,
          msg |-> <<>>, calls |-> <<>>]
    ELSE FetchAllLoop(c, IF cur[c].arraysize > FetchAllDefault
                         THEN cur[c].arraysize ELSE FetchAllDefault,
                      srv[c].rows, <<>>, failAt, trunc, <<>>)

\* Applies the outcome r of a fetch method of cursor c; the failure and the
\* truncation the library was to report were reached, or none was chosen.
ApplyFetch(c, name, r, arg, failAt, trunc) ==
    /\ failAt = 0 \/ r.res = Classified
    /\ trunc.row = 0
       \/ (r.calls # <<>> /\ r.calls[Len(r.calls)].f = "odbColActualLen")
    /\ srv' = [srv EXCEPT ![c].rows = r.left]
    /\ calls' = r.calls
    /\ last' = [Op(name, c) EXCEPT !.res = r.res, !.arg = arg, !.ret = r.ret,
                                   !.msg = r.msg]
    /\ UNCHANGED <<conn, cur, allocated, site, frees>>
    /\ Txn

Cursor_fetchmany(c, size, failAt, trunc) ==
    /\ cur[c].st = "live"
    /\ ApplyFetch(c, "Cursor.fetchmany",
                  Cursor_fetchmany_run(c, size, failAt, trunc),
                  IF size = -1 THEN cur[c].arraysize ELSE size, failAt, trunc)

\* Cursor.fetchone: fetchmany(1); [] becomes None (ret <<>>), else the row.
Cursor_fetchone(c, failAt, trunc) ==
    /\ cur[c].st = "live"
    /\ ApplyFetch(c, "Cursor.fetchone",
                  Cursor_fetchmany_run(c, 1, failAt, trunc), 1, failAt, trunc)

Cursor_fetchall(c, failAt, trunc) ==
    /\ cur[c].st = "live"
    /\ ApplyFetch(c, "Cursor.fetchall", Cursor_fetchall_run(c, failAt, trunc), 0,
                  failAt, trunc)

\* cursor.arraysize = n: the attribute is public and read by fetchmany and
\* fetchall.
Cursor_set_arraysize(c, n) ==
    /\ cur[c].st = "live"
    /\ cur' = [cur EXCEPT ![c].arraysize = n]
    /\ calls' = <<>>
    /\ last' = [Op("Cursor.arraysize", c) EXCEPT !.arg = n]
    /\ UNCHANGED <<conn, allocated, site, frees, srv>>
    /\ Txn

\* Cursor.nextset: odbFetchNextResult.  The library moves to the next result
\* set, `next`, when it holds one, else to no data; description is not
\* refreshed.
Cursor_nextset(c, ok, next) ==
    /\ cur[c].st = "live"
    /\ IF ~assert_cursor_is_open(c)
       THEN /\ calls' = <<>>
            /\ last' = [Op("Cursor.nextset", c) EXCEPT !.res = InterfaceError]
            /\ srv' = srv
       ELSE /\ calls' = <<Call("odbFetchNextResult", cur[c].handle)>>
            /\ last' = [Op("Cursor.nextset", c) EXCEPT
                            !.res = IF ok THEN OK ELSE Classified]
            /\ srv' = IF ~ok THEN srv
                      ELSE IF srv[c].more > 0
                      THEN [srv EXCEPT ![c] = [next EXCEPT !.more = srv[c].more - 1]]
                      ELSE [srv EXCEPT ![c] = NoResult]
    /\ UNCHANGED <<conn, cur, allocated, site, frees>>
    /\ Txn

\* ----------------------------------------------------- inputs of the runs

\* What Spec draws: one operation text, no row or one row of one value,
\* sizes for setinputsizes; its statements produce no result set and the
\* library reports their row count as -1 (not available).
NoTrunc == [row |-> 0, col |-> 1, len |-> 0]
LifeOperations == {"A"}
LifeRows == {<<>>, <<"int">>}
LifeBatches == {<<>>, <<<<"int">>>>}
LifeSizes == {<<>>, <<Descriptor("STRING", None, "odbSetParamText")>>,
              <<Descriptor("int", None, None)>>}

Next ==
    \/ \E failAt \in 0..Len(ConnectCalls(NoHandle, TRUE)),
          transactional, driverOk \in BOOLEAN :
            Connection_init(failAt, transactional, driverOk)
    \/ \E rbOk, loOk \in BOOLEAN : Connection_close(rbOk, loOk)
    \/ \E ok \in BOOLEAN : Connection_commit(ok)
    \/ \E ok \in BOOLEAN : Connection_rollback(ok)
    \/ \E rbOk, loOk \in BOOLEAN : Connection_del(rbOk, loOk)
    \/ \E failAt \in 0..2 : Connection_cursor(failAt)
    \/ \E c \in Cursors, dropOk \in BOOLEAN : Cursor_close(c, dropOk)
    \/ \E c \in Cursors, dropOk \in BOOLEAN : Cursor_del(c, dropOk)
    \/ \E c \in Cursors, operation \in LifeOperations, rows \in LifeBatches :
        \E failAt \in 0..StatusCalls(rows), rbOk \in BOOLEAN :
            Cursor_executemany(c, operation, rows, failAt, rbOk, NoResult, -1)
    \/ \E c \in Cursors, operation \in LifeOperations, parameters \in LifeRows :
        \E failAt \in 0..StatusCalls(<<parameters>>), rbOk \in BOOLEAN :
            Cursor_execute(c, operation, parameters, failAt, rbOk, NoResult, -1)
    \/ \E c \in Cursors, procname \in LifeOperations, parameters \in LifeRows :
        \E failAt \in 0..(Len(parameters) + 2), rbOk \in BOOLEAN :
            Cursor_callproc(c, procname, parameters, failAt, rbOk, NoResult, -1)
    \/ \E c \in Cursors, sizes \in LifeSizes : Cursor_setinputsizes(c, sizes)
    \/ \E c \in Cursors : Cursor_setoutputsize(c)
    \/ \E c \in Cursors, size \in {-1, 1}, failAt \in 0..1 :
            Cursor_fetchmany(c, size, failAt, NoTrunc)
    \/ \E c \in Cursors, failAt \in 0..1, row \in 0..1 :
            Cursor_fetchone(c, failAt, [row |-> row, col |-> 1, len |-> 0])
    \/ \E c \in Cursors, failAt \in 0..1 : Cursor_fetchall(c, failAt, NoTrunc)
    \/ \E c \in Cursors, ok \in BOOLEAN : Cursor_nextset(c, ok, NoResult)

Spec == Init /\ [][Next]_vars

\* ------------------------------------------- one cursor, its executions

\* SpecExec starts where Spec is after connect() and cursor() succeeded and
\* follows that one cursor, open on its open connection, through execute,
\* executemany, callproc, setinputsizes, commit and rollback with wider
\* inputs: two operation texts, batches of up to MaxRows rows (a row is
\* empty, an int, or, for execute and callproc, a value of a type the driver
\* does not support), a
\* result with or without a result set and a row count from -1 (not
\* available) to MaxRowCount, up to MaxSizes arguments of setinputsizes.
MaxRows == 1
MaxRowCount == 0
MaxSizes == 1

ExecCursor == "c1"
Operations == {"A", "B"}
ParamRows == {<<>>, <<"int">>, <<"other">>}
BatchParamRows == {<<>>, <<"int">>}
Batches == UNION {[1..n -> BatchParamRows] : n \in 0..MaxRows}
DateColumn == [sql |-> 91, odb |-> ODB_CHAR]
Results == {NoResult, [cols |-> <<DateColumn>>, rows |-> 1, more |-> 0]}
SizeItems == {Descriptor("STRING", None, "odbSetParamText"),
              Descriptor("int", None, None)}
SizeArgs == UNION {[1..n -> SizeItems] : n \in 0..MaxSizes}

\* What the library does during one run of at most n status calls: nothing
\* fails and it ends holding result and rc, or its failAt-th status call
\* fails and the rollback that follows succeeds; a rollback that fails
\* leaves the same state (the method raises the classified error either
\* way) and is drawn for a failure of the first call only.
ExecEnvs(n) ==
    {[failAt |-> 0, rbOk |-> TRUE, result |-> r, rc |-> k] :
        r \in Results, k \in -1..MaxRowCount}
    \cup {[failAt |-> k, rbOk |-> TRUE, result |-> NoResult, rc |-> -1] :
            k \in 1..n}
    \cup {[failAt |-> 1, rbOk |-> FALSE, result |-> NoResult, rc |-> -1]}

InitExec ==
    /\ txn = "none"
    /\ thr = [c \in Cursors |-> ThreadIdle]
    /\ pending = FALSE
    /\ stmt = [c \in Cursors |-> NoStatement]
    /\ conn = [st |-> "live", open |-> TRUE, committed |-> FALSE, handle |-> 1]
    /\ cur = [c \in Cursors |-> IF c = ExecCursor THEN NewCursor(3) ELSE NoCursor]
    /\ allocated = 3
    /\ site = [h \in Handles |->
                CASE h = 1 -> "Connection.__init__"
                  [] h = 2 -> "Connection.cursor"
                  [] h = 3 -> "Cursor.__init__"
                  [] OTHER -> "none"]
    /\ frees = [h \in Handles |-> 0]
    /\ srv = [c \in Cursors |-> NoResult]
    /\ last = [op |-> "Connection.cursor", who |-> "conn", res |-> OK,
               wasOpen |-> TRUE, wasCommitted |-> FALSE, arg |-> 0,
               ret |-> <<>>, rows |-> <<>>, rc |-> -1, msg |-> <<>>,
               text |-> None]
    /\ calls = <<Call("odbAllocate", 1), Call("odbAllocate", 1)>>

NextExec ==
    \/ \E operation \in Operations, rows \in Batches :
        \E env \in ExecEnvs(StatusCalls(rows)) :
            Cursor_executemany(ExecCursor, operation, rows, env.failAt,
                               env.rbOk, env.result, env.rc)
    \/ \E operation \in Operations, parameters \in ParamRows :
        \E env \in ExecEnvs(StatusCalls(<<parameters>>)) :
            Cursor_execute(ExecCursor, operation, parameters, env.failAt,
                           env.rbOk, env.result, env.rc)
    \/ \E procname \in LifeOperations, parameters \in ParamRows :
        \E env \in ExecEnvs(Len(parameters) + 2) :
            Cursor_callproc(ExecCursor, procname, parameters, env.failAt,
                            env.rbOk, env.result, env.rc)
    \/ \E sizes \in SizeArgs : Cursor_setinputsizes(ExecCursor, sizes)
    \/ \E ok \in BOOLEAN : Connection_commit(ok)
    \/ \E ok \in BOOLEAN : Connection_rollback(ok)

SpecExec == InitExec /\ [][NextExec]_vars

\* --------------------------------------------------------------- batches

\* executemany over batches of 1..MaxBatch parameter rows on the one open
\* cursor.  A row is one int, a null and an int, or one Decimal; the library
\* reports a row count from -1 to MaxBatchCount.
MaxBatch == 2
MaxBatchCount == 1

BatchRows == {<<"int">>, <<"NoneType", "int">>, <<"Decimal">>}
BatchSeqs == UNION {[1..n -> BatchRows] : n \in 1..MaxBatch}

BatchEnvs(n) ==
    {[failAt |-> 0, rbOk |-> TRUE, result |-> NoResult, rc |-> k] :
        k \in -1..MaxBatchCount}
    \cup {[failAt |-> k, rbOk |-> b, result |-> NoResult, rc |-> -1] :
            k \in 1..n, b \in BOOLEAN}

NextBatch ==
    \/ \E operation \in LifeOperations, rows \in BatchSeqs :
        \E env \in BatchEnvs(StatusCalls(rows)) :
            Cursor_executemany(ExecCursor, operation, rows, env.failAt,
                               env.rbOk, env.result, env.rc)
    \/ \E ok \in BOOLEAN : Connection_commit(ok)

SpecBatch == InitExec /\ [][NextBatch]_vars

\* A session to its logout: batches, commits and Connection.close.
NextLogout ==
    \/ NextBatch
    \/ \E rbOk, loOk \in BOOLEAN : Connection_close(rbOk, loOk)

SpecLogout == InitExec /\ [][NextLogout]_vars

\* ------------------------------------------------------- exception classes

\* errors.py: the base class of every exception class of the driver.
Bases ==
    [cls \in {"Warning", "Error"} |-> "StandardError"]
    @@ [cls \in {"InterfaceError", "DatabaseError"} |-> "Error"]
    @@ [cls \in {"DataError", "OperationalError", "IntegrityError",
                 "InternalError", "ProgrammingError", "NotSupportedError"}
            |-> "DatabaseError"]

\* issubclass(a, b) for the classes of errors.py.
RECURSIVE IsSubclass(_, _)
IsSubclass(a, b) ==
    \/ a = b
    \/ a \in DOMAIN Bases /\ IsSubclass(Bases[a], b)

\* ------------------------------------------------------ error classification

\* A text is a sequence of characters; "SP", "TAB", "CR" and "LF" name the
\* space, the tab, the carriage return and the line feed.
IsSpace(ch) == ch \in {"SP", "TAB", "CR", "LF"}

\* str.strip().
RECURSIVE LStrip(_)
LStrip(s) == IF s = <<>> \/ ~IsSpace(Head(s)) THEN s ELSE LStrip(Tail(s))
RECURSIVE RStrip(_)
RStrip(s) ==
    IF s = <<>> \/ ~IsSpace(s[Len(s)]) THEN s
    ELSE RStrip(SubSeq(s, 1, Len(s) - 1))
Strip(s) == RStrip(LStrip(s))

\* str.replace('\r\n', '\n').
RECURSIVE ReplaceCRLF(_)
ReplaceCRLF(s) ==
    IF s = <<>> THEN <<>>
    ELSE IF Len(s) >= 2 /\ s[1] = "CR" /\ s[2] = "LF"
    THEN <<"LF">> \o ReplaceCRLF(SubSeq(s, 3, Len(s)))
    ELSE <<s[1]>> \o ReplaceCRLF(Tail(s))

\* str.replace('\r', '\n').
ReplaceCR(s) == [i \in 1..Len(s) |-> IF s[i] = "CR" THEN "LF" ELSE s[i]]

\* str.split(sep): the first part and the number of parts.
RECURSIVE SplitFirst(_, _)
SplitFirst(s, sep) ==
    IF s = <<>> \/ Head(s) = sep THEN <<>>
    ELSE <<Head(s)>> \o SplitFirst(Tail(s), sep)
SplitLen(s, sep) == Cardinality({i \in 1..Len(s) : s[i] = sep}) + 1

\* The slice s[a:b] for 0 <= a <= b.
Slice(s, a, b) == SubSeq(s, a + 1, IF b < Len(s) THEN b ELSE Len(s))

\* str.upper() over the letters the codes are written with.
Upper(s) ==
    [i \in 1..Len(s) |->
        CASE s[i] = "c" -> "C" [] s[i] = "d" -> "D" [] s[i] = "f" -> "F"
          [] s[i] = "h" -> "H" [] s[i] = "i" -> "I" [] s[i] = "m" -> "M"
          [] s[i] = "t" -> "T" [] s[i] = "y" -> "Y" [] OTHER -> s[i]]

\* odbtp.constants: the protocol codes get_exception names.
ODBTPERR_NONE == "ODBTPERR_NONE"
ODBTPERR_SERVER == "ODBTPERR_SERVER"

\* errors.py: the protocol codes of ODBTP_ERRORS; every entry is an
\* InterfaceError instance.
ODBTP_ERRORS ==
    [code \in
        {"ODBTPERR_MEMORY", "ODBTPERR_HANDLE", "ODBTPERR_CONNECT",
     "ODBTPERR_READ", "ODBTPERR_SEND", "ODBTPERR_TIMEOUTCONN",
     "ODBTPERR_TIMEOUTREAD", "ODBTPERR_TIMEOUTSEND", "ODBTPERR_CONNECTED",
     "ODBTPERR_PROTOCOL", "ODBTPERR_RESPONSE", "ODBTPERR_MAXQUERYS",
     "ODBTPERR_COLNUMBER", "ODBTPERR_COLNAME", "ODBTPERR_FETCHROW",
     "ODBTPERR_NOTPREPPROC", "ODBTPERR_NOPARAMINFO", "ODBTPERR_PARAMNUMBER",
     "ODBTPERR_PARAMNAME", "ODBTPERR_PARAMBIND", "ODBTPERR_PARAMGET",
     "ODBTPERR_ATTRTYPE", "ODBTPERR_GETQUERY", "ODBTPERR_INTERFFILE",
     "ODBTPERR_INTERFSYN", "ODBTPERR_INTERFTYPE", "ODBTPERR_CONNSTRLEN",
     "ODBTPERR_NOSEEKCURSOR", "ODBTPERR_SEEKROWPOS", "ODBTPERR_DETACHED",
     "ODBTPERR_GETTYPEINFO", "ODBTPERR_LOADTYPES", "ODBTPERR_NOREQUEST",
     "ODBTPERR_FETCHEDROWS", "ODBTPERR_DISCONNECTED", "ODBTPERR_HOSTRESOLVE"} |-> InterfaceError]

\* errors.py: ODBC_ERROR_CODES, from the class of the SQLSTATE.
ODBC_ERROR_CODES ==
    (<<"0", "1">> :> "Warning")
    @@ (<<"0", "7">> :> "ProgrammingError")
    @@ (<<"0", "8">> :> "InterfaceError")
    @@ (<<"2", "1">> :> "ProgrammingError")
    @@ (<<"2", "2">> :> "ProgrammingError")
    @@ (<<"2", "3">> :> "IntegrityError")
    @@ (<<"2", "4">> :> "InternalError")
    @@ (<<"2", "5">> :> "InternalError")
    @@ (<<"2", "8">> :> "DatabaseError")
    @@ (<<"3", "4">> :> "InternalError")
    @@ (<<"3", "C">> :> "InternalError")
    @@ (<<"3", "D">> :> "ProgrammingError")
    @@ (<<"3", "F">> :> "ProgrammingError")
    @@ (<<"4", "0">> :> "IntegrityError")
    @@ (<<"4", "2">> :> "ProgrammingError")
    @@ (<<"4", "4">> :> "DatabaseError")
    @@ (<<"H", "Y">> :> "ProgrammingError")
    @@ (<<"I", "M">> :> "InterfaceError")

\* errors.py: HY_ERROR_CODES, from the subclass of an HY SQLSTATE.
HY_ERROR_CODES ==
    (<<"0", "0", "0">> :> "Error")
    @@ (<<"0", "0", "1">> :> "InterfaceError")
    @@ (<<"0", "0", "3">> :> "DataError")
    @@ (<<"0", "0", "4">> :> "DataError")
    @@ (<<"0", "0", "8">> :> "OperationalError")
    @@ (<<"0", "1", "4">> :> "InterfaceError")
    @@ (<<"0", "1", "8">> :> "OperationalError")
    @@ (<<"C", "0", "0">> :> "NotSupportedError")
    @@ (<<"T", "0", "0">> :> "OperationalError")
    @@ (<<"T", "0", "1">> :> "OperationalError")

\* A variant of error_subcode that reads the subclass one character early.
error_subcode_shifted(part) == Upper(Slice(part, 2, 5))

\* get_exception: error_parts[0][1:3].upper() and error_parts[0][3:6].upper().
error_code(part) == Upper(Slice(part, 1, 3))
error_subcode(part) == Upper(Slice(part, 3, 6))

\* A variant of too_few_parts that accepts a first line without ']'.
too_few_parts_accepting_one(n) == n < 1

\* get_exception: len(error_parts) < 2.
too_few_parts(n) == n < 2

\* get_exception for a handle whose odbGetError is code and whose
\* odbGetErrorText is text: the class of the exception returned, its
\* argument, and the library calls made.
get_exception(code, text) ==
    LET unknown    == [kind |-> "Error", args |-> <<"Unknown error.">>,
                       calls |-> <<"odbGetError">>]
        read       == <<"odbGetError", "odbGetErrorText">>
        stripped   == Strip(text)
        odbc_error == ReplaceCR(ReplaceCRLF(stripped))
        line       == SplitFirst(odbc_error, "LF")
        part       == SplitFirst(line, "]")
        made(kind) == [kind |-> kind, args |-> odbc_error, calls |-> read]
    IN  IF code = ODBTPERR_NONE THEN unknown
        ELSE IF code \in DOMAIN ODBTP_ERRORS
        THEN [kind |-> ODBTP_ERRORS[code], args |-> <<code>>,
              calls |-> <<"odbGetError">>]
        ELSE IF code = ODBTPERR_SERVER
        THEN IF stripped \in {<<>>, <<"N", "o", "n", "e">>}
             THEN [kind |-> "Error", args |-> <<"Unknown Error.">>,
                   calls |-> read]
             ELSE IF too_few_parts(SplitLen(line, "]"))
             THEN [kind |-> "Error", args |-> <<code>>, calls |-> read]
             ELSE IF error_code(part) = <<"H", "Y">>
                     /\ error_subcode(part) \in DOMAIN HY_ERROR_CODES
             THEN made(HY_ERROR_CODES[error_subcode(part)])
             ELSE IF error_code(part) \in DOMAIN ODBC_ERROR_CODES
             THEN made(ODBC_ERROR_CODES[error_code(part)])
             ELSE made("Error")
        ELSE unknown

\* The error states of a handle get_exception is applied to.  A well-formed
\* text is "[" class subclass "]" and a tail, possibly after white space;
\* the classes are those of ODBC_ERROR_CODES, one in lower case and one that
\* is listed nowhere, the subclasses those of HY_ERROR_CODES, one in lower
\* case and two that are not listed.
ErrClasses == DOMAIN ODBC_ERROR_CODES \cup {<<"h", "y">>, <<"X", "X">>}
ErrSubclasses ==
    DOMAIN HY_ERROR_CODES
    \cup {<<"t", "0", "0">>, <<"9", "9", "9">>, <<"S", "0", "2">>}
ErrPrefixes == {<<>>, <<"SP">>}
ErrTails ==
    {<<>>,
     <<"[", "d", "]", "SP", "m">>,
     <<"m", "CR", "LF", "[", "0", "8", "0", "0", "1", "]", "m">>}
FormatError(prefix, cls, sub, tail) ==
    prefix \o <<"[">> \o cls \o sub \o <<"]">> \o tail

WellFormedErrors ==
    {[code |-> ODBTPERR_SERVER, shape |-> "wellformed", cls |-> c, sub |-> b,
      text |-> FormatError(p, c, b, t)] :
        p \in ErrPrefixes, c \in ErrClasses, b \in ErrSubclasses, t \in ErrTails}
\* Texts that are not well formed: empty after strip(), the word None, and
\* first lines without "]".
OtherTexts ==
    [empty     |-> {<<>>, <<"SP", "CR", "LF">>},
     none      |-> {<<"N", "o", "n", "e">>, <<"N", "o", "n", "e", "LF">>},
     nobracket |-> {<<"m">>, <<"[", "H", "Y", "0", "0", "0">>,
                    <<"[", "2", "3", "0", "0", "0", "LF", "]">>}]
OtherServerErrors ==
    UNION {{[code |-> ODBTPERR_SERVER, shape |-> sh, cls |-> <<>>,
             sub |-> <<>>, text |-> t] : t \in OtherTexts[sh]} :
           sh \in DOMAIN OtherTexts}

\* Protocol codes other than ODBTPERR_SERVER, with a text the library would
\* give if it were asked.
ProtocolErrors ==
    {[code |-> c, shape |-> "unread", cls |-> <<>>, sub |-> <<>>, text |-> t] :
        c \in DOMAIN ODBTP_ERRORS \cup {ODBTPERR_NONE, "ODBTPERR_UNLISTED"},
        t \in {<<>>, FormatError(<<>>, <<"2", "3">>, <<"0", "0", "0">>, <<>>)}}

ErrorStates == WellFormedErrors \cup OtherServerErrors \cup ProtocolErrors

\* A library call on the connection's handle has failed and left the
\* handle in one of the error states; get_exception(handle) is then called.
InitErr ==
    /\ txn = "other"
    /\ thr = [c \in Cursors |-> ThreadIdle]
    /\ pending = FALSE
    /\ stmt = [c \in Cursors |-> NoStatement]
    /\ conn = [st |-> "live", open |-> TRUE, committed |-> FALSE, handle |-> 1]
    /\ cur = [c \in Cursors |-> NoCursor]
    /\ allocated = 1
    /\ site = [h \in Handles |->
                IF h = 1 THEN "Connection.__init__" ELSE "none"]
    /\ frees = [h \in Handles |-> 0]
    /\ srv = [c \in Cursors |-> NoResult]
    /\ calls = <<Call("odbCommit", 1)>>
    /\ \E e \in ErrorStates :
        last = [op |-> "Connection.commit", who |-> "conn", res |-> "failed",
                wasOpen |-> TRUE, wasCommitted |-> FALSE, arg |-> e,
                ret |-> <<>>, rows |-> <<>>, rc |-> -1, msg |-> <<>>,
               text |-> None]

Raise_get_exception ==
    LET r == get_exception(last.arg.code, last.arg.text)
    IN  /\ last.res = "failed"
        /\ last' = [last EXCEPT !.op = "get_exception", !.res = r.kind,
                                !.msg = r.args]
        /\ calls' = [i \in 1..Len(r.calls) |-> Call(r.calls[i], conn.handle)]
        /\ UNCHANGED <<conn, cur, allocated, site, frees, srv>>
        /\ Txn

NextErr == Raise_get_exception

SpecErr == InitErr /\ [][NextErr]_vars

\* --------------------------------------------------------- type inference

\* get_db_api_type applied to a host value: a value is its type and, for a
\* str, a unicode or a Binary, its length 0..MaxTextLen.
MaxTextLen == 24

TextTypes == {"str", "unicode", "Binary"}
OtherTypes == {"NoneType", "datetime", "date", "time", "int", "long", "bool",
               "Decimal", "float", "list"}
HostValues ==
    {[type |-> t, len |-> n] : t \in TextTypes, n \in 0..MaxTextLen}
    \cup {[type |-> t, len |-> 0] : t \in OtherTypes}

\* executemany is about to infer the descriptor of a value of a row.
InitTypes ==
    /\ txn = "none"
    /\ thr = [c \in Cursors |-> ThreadIdle]
    /\ pending = FALSE
    /\ stmt = [c \in Cursors |-> NoStatement]
    /\ conn = [st |-> "live", open |-> TRUE, committed |-> FALSE, handle |-> 1]
    /\ cur = [c \in Cursors |-> IF c = ExecCursor THEN NewCursor(3) ELSE NoCursor]
    /\ allocated = 3
    /\ site = [h \in Handles |->
                CASE h = 1 -> "Connection.__init__"
                  [] h = 2 -> "Connection.cursor"
                  [] h = 3 -> "Cursor.__init__"
                  [] OTHER -> "none"]
    /\ frees = [h \in Handles |-> 0]
    /\ srv = [c \in Cursors |-> NoResult]
    /\ calls = <<>>
    /\ \E v \in HostValues :
        last = [op |-> "value", who |-> ExecCursor, res |-> OK,
                wasOpen |-> TRUE, wasCommitted |-> FALSE, arg |-> v,
                ret |-> <<>>, rows |-> <<>>, rc |-> -1, msg |-> <<>>,
               text |-> None]

\* get_db_api_type(cursor, value): the exception raised, or the descriptor
\* returned with its size.
Infer_get_db_api_type ==
    LET r == get_db_api_type(last.arg.type)
    IN  /\ last.op = "value"
        /\ last' = [last EXCEPT
                        !.op = "get_db_api_type", !.res = r.exc,
                        !.ret = IF r.exc # OK THEN <<>>
                                ELSE <<[cls |-> r.d.cls,
                                        sub_type |-> r.d.sub_type,
                                        bound |-> r.d.bound,
                                        size |-> size_of(r.d, last.arg.len)]>>]
        /\ calls' = <<>>
        /\ UNCHANGED <<conn, cur, allocated, site, frees, srv>>
        /\ Txn

NextTypes == Infer_get_db_api_type

SpecTypes == InitTypes /\ [][NextTypes]_vars

\* ------------------------------------------------------------ column types

\* get_odb_type applied to a column of the cursor's result: the library
\* reports the column's SQL type and its ODB type.
SqlTypes == {-9, -8, 1, 2, 4, 9, 10, 12, 91, 92, 93}
OdbTypes == {ODB_CHAR, ODB_NUMERIC, ODB_DATE, ODB_TIME, ODB_WCHAR, 4, 93, -2}
ColumnTypes == {[sql |-> s, odb |-> o] : s \in SqlTypes, o \in OdbTypes}

\* _update_description is about to resolve the type of column 1.
InitCols ==
    /\ txn = "none"
    /\ thr = [c \in Cursors |-> ThreadIdle]
    /\ pending = FALSE
    /\ stmt = [c \in Cursors |-> NoStatement]
    /\ conn = [st |-> "live", open |-> TRUE, committed |-> FALSE, handle |-> 1]
    /\ cur = [c \in Cursors |-> IF c = ExecCursor THEN NewCursor(3) ELSE NoCursor]
    /\ allocated = 3
    /\ site = [h \in Handles |->
                CASE h = 1 -> "Connection.__init__"
                  [] h = 2 -> "Connection.cursor"
                  [] h = 3 -> "Cursor.__init__"
                  [] OTHER -> "none"]
    /\ frees = [h \in Handles |-> 0]
    /\ srv = [c \in Cursors |-> NoResult]
    /\ calls = <<>>
    /\ \E col \in ColumnTypes :
        last = [op |-> "column", who |-> ExecCursor, res |-> OK,
                wasOpen |-> TRUE, wasCommitted |-> FALSE, arg |-> col,
                ret |-> <<>>, rows |-> <<>>, rc |-> -1, msg |-> <<>>,
               text |-> None]

\* get_odb_type(handle, column): reads both types and returns the resolved
\* type.
Resolve_get_odb_type ==
    /\ last.op = "column"
    /\ last' = [last EXCEPT !.op = "get_odb_type",
                            !.ret = <<get_odb_type(last.arg.sql, last.arg.odb)>>]
    /\ calls' = <<[Call("odbColSqlType", cur[ExecCursor].handle) EXCEPT !.col = 1],
                  [Call("odbColDataType", cur[ExecCursor].handle) EXCEPT !.col = 1]>>
    /\ UNCHANGED <<conn, cur, allocated, site, frees, srv>>
    /\ Txn

NextCols == Resolve_get_odb_type

SpecCols == InitCols /\ [][NextCols]_vars

\* ------------------------------------------------- two threads, two cursors

\* Two threads, each with its own cursor of one open connection.  A method
\* is no longer one action: a thread may lose the processor between any two
\* library calls and between any two assignments of Cursor.executemany, so
\* each of them is a step of its own.  The fetch methods read and write
\* nothing that a method of the other cursor writes, and stay one step.

ThreadOperations == {"A"}
ThreadBatches == {<<<<"int">>>>}

\* Both cursors were obtained (each Connection.cursor call allocates two
\* handles) and the connection may have been committed since.
InitThreads ==
    /\ txn = "none"
    /\ thr = [c \in Cursors |-> ThreadIdle]
    /\ pending = FALSE
    /\ stmt = [c \in Cursors |-> NoStatement]
    /\ \E committed \in BOOLEAN :
        /\ conn = [st |-> "live", open |-> TRUE, committed |-> committed,
                   handle |-> 1]
        /\ last = [op |-> "Connection.cursor", who |-> "conn", res |-> OK,
                   wasOpen |-> TRUE, wasCommitted |-> committed, arg |-> 0,
                   ret |-> <<>>, rows |-> <<>>, rc |-> -1, msg |-> <<>>,
               text |-> None]
    /\ cur = [c \in Cursors |-> IF c = "c1" THEN NewCursor(3) ELSE NewCursor(5)]
    /\ allocated = 5
    /\ site = [h \in 1..5 |->
                CASE h = 1 -> "Connection.__init__"
                  [] h \in {2, 4} -> "Connection.cursor"
                  [] OTHER -> "Cursor.__init__"]
    /\ frees = [h \in 1..5 |-> 0]
    /\ srv = [c \in Cursors |-> NoResult]
    /\ calls = <<Call("odbAllocate", 1), Call("odbAllocate", 1)>>

\* A step of the thread of cursor c: what it leaves of the other objects.
ThreadStep(c, name, res, cs) ==
    /\ last' = [Op(name, c) EXCEPT !.res = res]
    /\ calls' = cs
    /\ UNCHANGED <<allocated, site, frees>>
    /\ TxnEvent

\* Cursor.executemany up to its first library call: the checks, total_cols
\* and the decision to prepare, which fix the script of the call.
Thread_executemany(c, operation, rows) ==
    /\ thr[c].pc = "idle"
    /\ LET total_cols == total_cols_of(rows)
           raised == ~assert_cursor_is_open(c) \/ total_cols = -1
           prep   == operation # cur[c].prepared_operation
           toBind == HintsToBind(c)
           pre    == IF prep
                     THEN PrepareSteps(c, operation, toBind, total_cols)
                     ELSE <<>>
           hints  == IF prep
                     THEN [i \in 1..Len(toBind) |->
                              Bound(toBind[i], c, i, total_cols)]
                     ELSE cur[c].input_sizes
       IN  /\ thr' = [thr EXCEPT ![c] =
                        IF raised THEN @
                        ELSE [@ EXCEPT !.pc = "steps",
                                       !.operation = operation,
                                       !.steps = pre \o RowSteps(c, hints, rows,
                                                                 1, total_cols),
                                       !.i = 1]]
           /\ last' = [Op("Cursor.executemany", c) EXCEPT
                            !.res = IF raised THEN InterfaceError ELSE "running",
                            !.text = operation, !.rows = rows]
    /\ calls' = <<>>
    /\ UNCHANGED <<conn, cur, srv, allocated, site, frees>>
    /\ TxnEvent

\* Cursor.execute is executemany(operation, (parameters,)).
Thread_execute(c, operation, parameters) ==
    Thread_executemany(c, operation, <<parameters>>)

\* The next step of the script: a raise of the driver's own ends the method;
\* a library call succeeds or fails (ok).  After a successful odbPrepare the
\* hints of an older prepared operation are dropped and prepared_operation
\* is set; a successful bind of a hint marks the hint bound.
Thread_step(c, ok) ==
    /\ thr[c].pc = "steps"
    /\ LET t  == thr[c]
           st == t.steps[t.i]
       IN  IF st.k = "raise"
           THEN /\ ok
                /\ thr' = [thr EXCEPT ![c] = [ThreadIdle EXCEPT !.done = t.done]]
                /\ UNCHANGED <<conn, cur, srv>>
                /\ ThreadStep(c, "Cursor.executemany", st.exc, <<>>)
           ELSE /\ thr' = [thr EXCEPT ![c] =
                             IF ~ok THEN [@ EXCEPT !.pc = "rollback"]
                             ELSE IF t.i = Len(t.steps)
                             THEN [@ EXCEPT !.pc = "describe"]
                             ELSE [@ EXCEPT !.i = @ + 1]]
                /\ cur' = [cur EXCEPT ![c] =
                             IF ok /\ st.tag = "prepare"
                             THEN [@ EXCEPT !.input_sizes = HintsToBind(c),
                                            !.prepared_operation = t.operation]
                             ELSE IF st.tag = "hintbind"
                             THEN [@ EXCEPT !.input_sizes[st.idx] =
                                    [@ EXCEPT !.cursor = c,
                                              !.col_number = st.call.col,
                                              !.final = st.call.final,
                                              !.bound = ok]]
                             ELSE @]
                /\ srv' = [srv EXCEPT ![c] = IF ok THEN NoResult ELSE @]
                /\ UNCHANGED conn
                /\ ThreadStep(c, "Cursor.executemany",
                              IF ok THEN "running" ELSE Classified, <<st.call>>)

\* After a library call failed: self.connection.rollback(), then the raise
\* of the exception built from the handle's error state.
Thread_rollback(c, rbOk) ==
    /\ thr[c].pc = "rollback"
    /\ thr' = [thr EXCEPT ![c] = [ThreadIdle EXCEPT !.done = thr[c].done]]
    /\ UNCHANGED <<conn, cur, srv>>
    /\ ThreadStep(c, "Cursor.executemany", Classified,
                  Connection_rollback_run(rbOk).calls)

\* self._update_description(): reads the columns of the result the library
\* now holds for the cursor's handle.
Thread_describe(c, result) ==
    /\ thr[c].pc = "describe"
    /\ thr' = [thr EXCEPT ![c].pc = "rowcount"]
    /\ cur' = [cur EXCEPT ![c].description = update_description(result)]
    /\ srv' = [srv EXCEPT ![c] = result]
    /\ UNCHANGED conn
    /\ ThreadStep(c, "Cursor.executemany", "running",
                  update_description_calls(cur[c].handle, result))

\* self.rowcount = odb.odbGetRowCount(self.handle)
Thread_rowcount(c, rc) ==
    /\ thr[c].pc = "rowcount"
    /\ thr' = [thr EXCEPT ![c].pc = "dirty"]
    /\ cur' = [cur EXCEPT ![c].rowcount = rc]
    /\ UNCHANGED <<conn, srv>>
    /\ ThreadStep(c, "Cursor.executemany", "running",
                  <<Call("odbGetRowCount", cur[c].handle)>>)

\* A variant of the last assignment that leaves connection.committed alone.
committed_after_execution_kept == conn.committed

\* self.connection.committed = False
committed_after_execution == FALSE

\* The last assignment of executemany, and its return.
Thread_dirty(c) ==
    /\ thr[c].pc = "dirty"
    /\ thr' = [thr EXCEPT ![c] = [ThreadIdle EXCEPT !.done = TRUE]]
    /\ conn' = [conn EXCEPT !.committed = committed_after_execution]
    /\ UNCHANGED <<cur, srv>>
    /\ ThreadStep(c, "Cursor.executemany", OK, <<>>)

\* Cursor.fetchone by a thread that is between two executions.
Thread_fetchone(c, fails) ==
    /\ thr[c].pc = "idle"
    /\ Cursor_fetchone(c, IF fails THEN 1 ELSE 0, NoTrunc)

NextThreads ==
    \/ \E c \in Cursors, operation \in ThreadOperations, rows \in ThreadBatches :
        Thread_executemany(c, operation, rows)
    \/ \E c \in Cursors, operation \in ThreadOperations :
        Thread_execute(c, operation, <<>>)
    \/ \E c \in Cursors, ok \in BOOLEAN : Thread_step(c, ok)
    \/ \E c \in Cursors, rbOk \in BOOLEAN : Thread_rollback(c, rbOk)
    \/ \E c \in Cursors, result \in Results : Thread_describe(c, result)
    \/ \E c \in Cursors, rc \in -1..MaxRowCount : Thread_rowcount(c, rc)
    \/ \E c \in Cursors : Thread_dirty(c)
    \/ \E c \in Cursors, fails \in BOOLEAN : Thread_fetchone(c, fails)

SpecThreads == InitThreads /\ [][NextThreads]_vars

\* ---------------------------------------------------------------- fetches

\* The fetch methods on the one open cursor after a query of two columns
\* that left 0..MaxFetchRows rows; arraysize is 1 or one more than the
\* default batch of fetchall; fetchmany is asked for None or 0..MaxFetchSize
\* rows.  The library reports no failure, or its k-th odbFetchRow fails, or
\* it reports a column of the r-th row of the call truncated with an actual
\* length of 1..MaxActualLen.
MaxFetchRows == 42
MaxFetchSize == 2
MaxActualLen == 2

FetchColumns == <<DateColumn, DateColumn>>
FetchResults ==
    {[cols |-> FetchColumns, rows |-> n, more |-> 0] : n \in 0..MaxFetchRows}
ArraySizes == {1, FetchAllDefault + 1}
FetchEnvs ==
    {[failAt |-> 0, trunc |-> NoTrunc]}
    \cup {[failAt |-> k, trunc |-> NoTrunc] : k \in 1..MaxFetchSize}
    \cup {[failAt |-> 0, trunc |-> [row |-> r, col |-> c, len |-> l]] :
            r \in 1..MaxFetchSize, c \in 1..Len(FetchColumns),
            l \in 1..MaxActualLen}

NextFetch ==
    \/ \E operation \in LifeOperations, result \in FetchResults :
            Cursor_execute(ExecCursor, operation, <<>>, 0, TRUE, result, -1)
    \/ \E n \in ArraySizes : Cursor_set_arraysize(ExecCursor, n)
    \/ \E size \in -1..MaxFetchSize, env \in FetchEnvs :
            Cursor_fetchmany(ExecCursor, size, env.failAt, env.trunc)
    \/ \E env \in FetchEnvs :
            Cursor_fetchone(ExecCursor, env.failAt, env.trunc)
    \/ \E env \in FetchEnvs :
            Cursor_fetchall(ExecCursor, env.failAt, env.trunc)

SpecFetch == InitExec /\ [][NextFetch]_vars

\* ------------------------------------------------- size hints of a cursor

\* Cursor.input_sizes is an attribute Cursor.__init__ creates under a public
\* name; setinputsizes cannot store a hint (NameError), an assignment
\* cursor.input_sizes = sizes can.  It changes nothing else, and is made
\* here only while no operation is prepared, the one state of
\* prepared_operation that setinputsizes leaves.
Cursor_assign_input_sizes(c, sizes) ==
    /\ cur[c].st = "live"
    /\ cur[c].prepared_operation = None
    /\ cur' = [cur EXCEPT ![c].input_sizes = sizes]
    /\ calls' = <<>>
    /\ last' = [Op("Cursor.input_sizes", c) EXCEPT
                    !.arg = Len(sizes),
                    !.ret = [i \in 1..Len(sizes) |-> sizes[i].cls]]
    /\ UNCHANGED <<conn, allocated, site, frees, srv>>
    /\ Txn

\* Hints for one column: a STRING or a NUMBER('int') instance.
HintArgs ==
    {<<Descriptor("STRING", None, "odbSetParamText")>>,
     <<Descriptor("NUMBER", "int", "odbSetParamLongLong")>>}

NextHints ==
    \/ \E sizes \in HintArgs : Cursor_assign_input_sizes(ExecCursor, sizes)
    \/ \E operation \in Operations, rows \in Batches :
        \E env \in ExecEnvs(StatusCalls(rows) + MaxSizes) :
            Cursor_executemany(ExecCursor, operation, rows, env.failAt,
                               env.rbOk, env.result, env.rc)
    \/ \E operation \in Operations, parameters \in ParamRows :
        \E env \in ExecEnvs(StatusCalls(<<parameters>>) + MaxSizes) :
            Cursor_execute(ExecCursor, operation, parameters, env.failAt,
                           env.rbOk, env.result, env.rc)

SpecHints == InitExec /\ [][NextHints]_vars

\* ------------------------------------------------------------ result sets

\* A statement that leaves several result sets: the execution reads the
\* columns of the first, nextset moves the library to the next, and
\* fetchmany reads rows of the set the library is at.  A set has one column
\* (a date sent as characters) or two (the date and an integer), and
\* 0..MaxSetRows rows; up to MaxMoreSets sets follow the first.
MaxSetRows == 2
MaxMoreSets == 1

IntColumn == [sql |-> 4, odb |-> 4]
SetColumns == {<<DateColumn>>, <<IntColumn, DateColumn>>}
ResultSets ==
    {[cols |-> cs, rows |-> n, more |-> m] :
        cs \in SetColumns, n \in 0..MaxSetRows, m \in 0..MaxMoreSets}

NextSets ==
    \/ \E operation \in LifeOperations, result \in ResultSets :
            Cursor_execute(ExecCursor, operation, <<>>, 0, TRUE, result, -1)
    \/ \E ok \in BOOLEAN, next \in ResultSets :
            Cursor_nextset(ExecCursor, ok, next)
    \/ \E size \in 1..MaxSetRows, fails \in BOOLEAN :
            Cursor_fetchmany(ExecCursor, size, IF fails THEN 1 ELSE 0, NoTrunc)

SpecSets == InitExec /\ [][NextSets]_vars

\* ------------------------------------------------------------- properties

ConnectionOps ==
    {"Connection.close", "Connection.commit", "Connection.rollback",
     "Connection.cursor"}
ExecOps == {"Cursor.execute", "Cursor.executemany", "Cursor.callproc"}
CursorOps ==
    ExecOps \cup {"Cursor.fetchone", "Cursor.fetchmany", "Cursor.fetchall",
                  "Cursor.nextset", "Cursor.setinputsizes",
                  "Cursor.setoutputsize"}

\* C1: every public Cursor operation other than close, called while the
\* cursor or its connection is closed, raises InterfaceError and issues no
\* library call.
C1_ClosedCursorRaises ==
    (last.op \in CursorOps /\ ~last.wasOpen)
        => (last.res = InterfaceError /\ calls = <<>>)

\* callproc on a closed cursor reached odbPrepareProc.
C1_CallprocOnClosedCursor ==
    /\ last.op = "Cursor.callproc" /\ ~last.wasOpen
    /\ Count(calls, "odbPrepareProc") = 1

\* The Connection or Cursor that holds handle h is closed or gone.  The
\* handle Connection.cursor allocates into a local belongs to the connection.
OwnerGone(h) ==
    IF site[h] = "Cursor.__init__"
    THEN \E c \in Cursors : cur[c].handle = h /\ cur[c].st # "none"
                            /\ (cur[c].st = "dead" \/ ~cur[c].open)
    ELSE conn.st \in {"dead", "failed"} \/ (conn.st = "live" /\ ~conn.open)

\* C2: every handle odbAllocate returned is freed exactly once: never
\* twice, and not left unfreed once its owner is closed or destroyed.
C2_HandlesFreedOnce ==
    \A h \in Handles :
        /\ frees[h] <= 1
        /\ (site[h] # "none" /\ OwnerGone(h)) => frees[h] = 1

\* A handle was passed to odbFree twice.
C2_DoubleFree == \E h \in Handles : frees[h] >= 2

\* C3: after an execute, executemany or callproc that fails in prepare,
\* bind, parameter set or execute, committed is false and exactly one
\* rollback was issued for the call.
C3_FailedRunRollsBack ==
    (/\ last.op \in ExecOps /\ last.wasOpen /\ last.res # OK
     /\ ~(last.op = "Cursor.executemany" /\ last.arg = 0))
        => (~conn.committed /\ Count(calls, "odbRollback") = 1)

\* A run failed after a commit and committed is still true.
C3_CommittedSurvivesFailure ==
    /\ last.op \in ExecOps /\ last.wasOpen /\ last.res = Classified
    /\ Count(calls, "odbRollback") = 1
    /\ conn.committed

\* C4: Cursor.close on a closed cursor raises InterfaceError, makes no
\* library call and does not free the handle a second time.
C4_CloseClosedCursorRaises ==
    (last.op = "Cursor.close" /\ ~last.wasOpen)
        => (/\ last.res = InterfaceError /\ calls = <<>>
            /\ \A h \in Handles : frees[h] <= 1)

\* A second Cursor.close reached odbFree.
C4_SecondCloseFrees ==
    /\ last.op = "Cursor.close" /\ ~last.wasOpen
    /\ Count(calls, "odbFree") = 1

\* C5: once Connection.close has closed the connection, every later close,
\* commit, rollback or cursor on it raises InterfaceError, issues no library
\* call and leaves the connection closed.
C5_ClosedConnectionRaises ==
    [][(conn.st = "live" /\ ~conn.open /\ last'.op \in ConnectionOps)
        => (/\ last'.res = InterfaceError /\ calls' = <<>>
            /\ conn' = conn /\ allocated' = allocated /\ frees' = frees)]_vars

\* commit was called on a connection that close had closed.
C5_CommitAfterClose ==
    /\ last.op = "Connection.commit" /\ ~last.wasOpen
    /\ last.res = InterfaceError
    /\ conn.handle = NoHandle

\* C6: Connection.close on an open connection issues a rollback exactly
\* when committed is false, before the logout, which precedes odbFree; when
\* a successful commit was the last transaction event it issues none.
C6_CloseRollsBackUncommitted ==
    [][(/\ conn.st = "live" /\ conn.open
        /\ last'.op \in {"Connection.close", "Connection.__del__"})
        => /\ Count(calls', "odbRollback") = (IF conn.committed THEN 0 ELSE 1)
           /\ Count(calls', "odbRollback") = 1 => First(calls', "odbRollback") = 1
           /\ Count(calls', "odbLogout") <= 1 /\ Count(calls', "odbFree") <= 1
           /\ Count(calls', "odbLogout") = 1
                => First(calls', "odbRollback") < First(calls', "odbLogout")
           /\ Count(calls', "odbFree") = 1
                => /\ Count(calls', "odbLogout") = 1
                   /\ First(calls', "odbLogout") < First(calls', "odbFree")
           /\ txn = "commit" => Count(calls', "odbRollback") = 0]_vars

\* close ran on an open connection whose last transaction event was a
\* successful commit, and one on an uncommitted connection rolled back.
C6_CloseAfterCommit ==
    /\ last.op = "Connection.close" /\ last.wasOpen /\ last.res = OK
    /\ last.wasCommitted /\ txn = "commit"
    /\ Count(calls, "odbRollback") = 0 /\ Count(calls, "odbFree") = 1

\* C7: a new connection starts with committed false; a successful commit
\* sets it; rollback, successful or not, and a failed commit leave it as it
\* was.
C7_CommittedFlag ==
    [][/\ (last'.op = "connect" /\ last'.res = OK) => ~conn'.committed
       /\ (last'.op = "Connection.commit" /\ last'.res = OK) => conn'.committed
       /\ (\/ last'.op = "Connection.rollback"
           \/ last'.op = "Connection.commit" /\ last'.res # OK)
            => conn'.committed = conn.committed]_vars

\* A commit failed on an open connection that was not committed.
C7_FailedCommit ==
    /\ last.op = "Connection.commit" /\ last.wasOpen /\ last.res = Classified
    /\ ~last.wasCommitted /\ ~conn.committed

\* C8: after execute, executemany or callproc returns successfully,
\* committed is false, and it stays false until a commit succeeds.
C8_ExecuteClearsCommitted ==
    [][/\ (last'.op \in ExecOps /\ last'.res = OK) => ~conn'.committed
       /\ (~conn.committed /\ conn'.committed)
            => (last'.op = "Connection.commit" /\ last'.res = OK)]_vars

\* An execute succeeded on a committed connection.
C8_ExecuteAfterCommit ==
    /\ last.op \in ExecOps /\ last.res = OK
    /\ last.wasCommitted /\ ~conn.committed

\* C9: executemany with no rows on an open cursor raises InterfaceError,
\* issues no library call and leaves prepared_operation, input_sizes,
\* description, rowcount and committed as they were.
C9_NoRowsRaises ==
    [][(/\ last'.op = "Cursor.executemany" /\ last'.arg = 0
        /\ cur[last'.who].open /\ conn.open)
        => (/\ last'.res = InterfaceError /\ calls' = <<>>
            /\ cur' = cur /\ conn' = conn)]_vars

\* executemany with no rows ran on an open cursor that had prepared.
C9_NoRowsAfterPrepare ==
    /\ last.op = "Cursor.executemany" /\ last.arg = 0 /\ last.wasOpen
    /\ last.res = InterfaceError
    /\ cur[last.who].prepared_operation # None

\* C10: an item that is not a Type Object given to setinputsizes raises
\* InterfaceError and leaves the size hints and the prepared operation.
C10_BadSizeRaisesInterfaceError ==
    (last.op = "Cursor.setinputsizes" /\ last.arg > 0)
        => last.res = InterfaceError

\* setinputsizes was given an item that is not a Type Object.
C10_BadSizeGiven ==
    /\ last.op = "Cursor.setinputsizes" /\ last.arg > 0
    /\ last.res = NameError

\* C11: setinputsizes with Type Object instances replaces the size hints
\* with exactly those descriptors and clears the prepared operation (so that
\* the next executemany prepares again and binds each hint to its column).
C11_SizesInstalled ==
    (last.op = "Cursor.setinputsizes" /\ last.ret # <<>> /\ last.arg = 0)
        => /\ last.res = OK
           /\ [i \in 1..Len(cur[last.who].input_sizes) |->
                    cur[last.who].input_sizes[i].cls] = last.ret
           /\ cur[last.who].prepared_operation = None

\* setinputsizes was given Type Objects only and raised NameError.
C11_TypeObjectsRejected ==
    /\ last.op = "Cursor.setinputsizes" /\ last.ret # <<>> /\ last.arg = 0
    /\ last.res = NameError
    /\ cur[last.who].input_sizes = <<>>

\* The setters of types.py: odbSetParamNull and every odb_set_func.
SetFuncs == {"odbSetParamNull", "odbSetParamText", "odbSetParamLongLong",
             "odbSetParamDouble"}

\* The position in cs of the j-th odbExecute call (0 for j = 0).
ExecIndex(cs, j) ==
    IF j = 0 THEN 0
    ELSE CHOOSE i \in 1..Len(cs) :
            /\ cs[i].f = "odbExecute"
            /\ Cardinality({m \in 1..i : cs[m].f = "odbExecute"}) = j

\* The set calls issued after the (j-1)-th execute and before the j-th.
SetsBefore(cs, j) ==
    LET seg == SubSeq(cs, ExecIndex(cs, j - 1) + 1, ExecIndex(cs, j) - 1)
        IsSet(x) == x.f \in SetFuncs
    IN  SelectSeq(seg, IsSet)

\* C12: executemany with k >= 1 parameter rows, when no library call fails,
\* issues exactly k odbExecute calls, the j-th preceded by a set call for
\* every value of row j in column order, and afterwards rowcount is the row
\* count the library reported.
C12_OneExecutePerRow ==
    (/\ last.op = "Cursor.executemany" /\ last.wasOpen
     /\ Len(last.rows) >= 1 /\ last.res # Classified)
        => /\ last.res = OK
           /\ Count(calls, "odbExecute") = Len(last.rows)
           /\ \A j \in 1..Len(last.rows) :
                LET sets == SetsBefore(calls, j)
                IN  /\ [i \in 1..Len(sets) |-> sets[i].arg] = last.rows[j]
                    /\ \A i \in 1..Len(sets) : sets[i].col = i
           /\ cur[last.who].rowcount = last.rc

\* A batch of two rows with values ran to its end: two executes, each after
\* the set calls of its row.
C12_TwoRowsExecuted ==
    /\ last.op = "Cursor.executemany" /\ last.res = OK
    /\ last.rows = <<(<<"NoneType", "int">>), (<<"int">>)>>
    /\ Count(calls, "odbExecute") = 2
    /\ Len(SetsBefore(calls, 1)) = 2 /\ Len(SetsBefore(calls, 2)) = 1
    /\ cur[last.who].rowcount = last.rc /\ last.rc = MaxBatchCount

\* A batch with a Decimal value: no library call failed, and executemany
\* raised ProgrammingError before the row's execute.
C12_DecimalRowNotExecuted ==
    /\ last.op = "Cursor.executemany" /\ last.res = ProgrammingError
    /\ last.rows = <<(<<"int">>), (<<"Decimal">>)>>
    /\ Count(calls, "odbExecute") = 1

\* C13: callproc with one or more parameters, when no library call fails,
\* sets every parameter value without a bind call, calls odbExecute exactly
\* once, then refreshes description and rowcount.
C13_CallprocSetsAndExecutes ==
    (/\ last.op = "Cursor.callproc" /\ last.wasOpen
     /\ Len(last.rows[1]) >= 1 /\ last.res # Classified)
        => /\ last.res = OK
           /\ Count(calls, "odbBindParamEx") = 0
           /\ Count(calls, "odbExecute") = 1
           /\ LET sets == SetsBefore(calls, 1)
              IN  [i \in 1..Len(sets) |-> sets[i].arg] = last.rows[1]
           /\ cur[last.who].description = update_description(srv[last.who])
           /\ cur[last.who].rowcount = last.rc

\* callproc with an int parameter: odbPrepareProc succeeded, then
\* set_parameter raised InterfaceError on the descriptor that was never
\* bound; nothing was set or executed and no rollback was issued.
C13_CallprocRaisesUnbound ==
    /\ last.op = "Cursor.callproc" /\ last.rows = <<(<<"int">>)>>
    /\ last.res = InterfaceError
    /\ Count(calls, "odbPrepareProc") = 1 /\ Len(calls) = 1

FetchOps == {"Cursor.fetchone", "Cursor.fetchmany", "Cursor.fetchall"}

\* C14: fetchmany(n) returns at most n rows for every n >= 0, and on an
\* exhausted result set fetchmany returns the empty list and fetchone None
\* (no row), without raising, whenever the library's fetch call succeeds;
\* the result set stays exhausted.
C14_FetchmanyAtMostN ==
    [][/\ (last'.op = "Cursor.fetchmany" /\ last'.wasOpen)
            => (last'.arg >= 0 /\ Len(last'.ret) <= last'.arg)
       /\ (/\ last'.op \in {"Cursor.fetchmany", "Cursor.fetchone"}
           /\ last'.wasOpen /\ srv[last'.who].rows = 0
           /\ last'.res # Classified)
            => /\ last'.res = OK /\ last'.ret = <<>>
               /\ srv'[last'.who].rows = 0]_vars

\* fetchmany(MaxFetchSize) returned fewer rows than asked, which exhausted
\* the result set of a query, and the next fetch call returned no row.
C14_ExhaustedReturnsEmpty ==
    /\ last.op = "Cursor.fetchmany" /\ last.res = OK /\ last.ret = <<>>
    /\ last.arg = MaxFetchSize
    /\ ~cur[last.who].description.none
    /\ Count(calls, "odbNoData") = 1

\* C15: fetchall, when no library call fails and nothing is truncated,
\* returns every remaining row once in arrival order and leaves none; it
\* stops at the first batch shorter than max(20, arraysize), so it probes
\* the end of the data exactly once: one odbFetchRow more than rows, also
\* for zero rows and for an exact multiple of the batch size.
C15_FetchallReturnsAllOnce ==
    [][(/\ last'.op = "Cursor.fetchall" /\ last'.wasOpen
        /\ last'.res \notin {Classified, "Warning"})
            => LET n == srv[last'.who].rows
               IN  /\ last'.res = OK
                   /\ last'.ret = [i \in 1..n |-> n + 1 - i]
                   /\ srv'[last'.who].rows = 0
                   /\ Count(calls', "odbFetchRow") = n + 1]_vars

\* fetchall returned two full default batches: the remaining rows were an
\* exact multiple of the batch size.
C15_ExactMultipleFetched ==
    /\ last.op = "Cursor.fetchall" /\ last.res = OK
    /\ cur[last.who].arraysize = 1
    /\ Len(last.ret) = 2 * FetchAllDefault
    /\ Count(calls, "odbFetchRow") = 2 * FetchAllDefault + 1

\* C16: when the library reports a column of a fetched row truncated (the
\* actual length is then read), the fetch raises Warning, a sibling of Error
\* and not a subclass of it, whose message carries that column's number and
\* the actual length; no row is returned.
C16_TruncationRaisesWarning ==
    (/\ last.op \in FetchOps /\ calls # <<>>
     /\ calls[Len(calls)].f = "odbColActualLen")
        => /\ last.res = "Warning"
           /\ ~IsSubclass(last.res, "Error") /\ ~IsSubclass("Error", last.res)
           /\ Bases[last.res] = Bases["Error"]
           /\ last.ret = <<>>
           /\ last.msg[2] = calls[Len(calls)].col
           /\ last.msg[4] = calls[Len(calls)].arg

\* fetchmany(MaxFetchSize) fetched a first row, then the second column of
\* the second row was reported truncated with the largest actual length.
C16_SecondRowTruncated ==
    /\ last.op = "Cursor.fetchmany" /\ last.res = "Warning"
    /\ last.arg = MaxFetchSize
    /\ Count(calls, "odbFetchRow") = 2
    /\ last.msg[2] = 2 /\ last.msg[4] = MaxActualLen
    /\ last.ret = <<>>

\* C17: when odbAllocate, odbLogin or a call of _set_attributes fails during
\* connect, a classified error is raised and open stays false; open is true
\* after connect only if allocation, login, the driver-name query and every
\* attribute call were made and succeeded.
C17_OpenOnlyAfterAllSucceeded ==
    last.op = "connect"
        => /\ (\E i \in DOMAIN last.ret :
                    ~last.ret[i] /\ calls[i].f # "odbGetAttrText")
                => (last.res = Classified /\ ~conn.open)
           /\ conn.open
                => /\ \A i \in DOMAIN last.ret : last.ret[i]
                   /\ \A f \in {"odbAllocate", "odbLogin", "odbGetAttrText",
                                "odbLoadDataTypes", "odbUseRowCache"} :
                        Count(calls, f) = 1
                   /\ Count(calls, "odbSetAttrLong") >= 2

\* connect stopped at a failed attribute call: classified error, not open.
C17_FailedNegotiation ==
    /\ last.op = "connect" /\ last.res = Classified /\ ~conn.open
    /\ calls[Len(calls)].f = "odbSetAttrLong"
    /\ ~last.ret[Len(calls)]

\* connect returned an open connection although the driver-name query
\* failed.
C17_OpenAfterFailedDriverQuery ==
    /\ last.op = "connect" /\ last.res = OK /\ conn.open
    /\ calls[3].f = "odbGetAttrText" /\ ~last.ret[3]

\* C18: for a server error whose text is well formed, get_exception
\* classifies by the class and the subclass of the first line: HY with a
\* subclass of the HY table gives that table's kind (HY000: Error), HY with
\* another subclass ProgrammingError, any other class of the class table
\* that table's kind (23 IntegrityError, 01 Warning, 08 and IM
\* InterfaceError, 28 DatabaseError), and a class of neither table Error;
\* the exception carries the text.
C18_ClassifiedByClassAndSubclass ==
    (last.op = "get_exception" /\ last.arg.shape = "wellformed")
        => LET c == Upper(last.arg.cls)
               b == Upper(last.arg.sub)
               HY == <<"H", "Y">>
           IN  /\ last.res =
                    IF c = HY /\ b \in DOMAIN HY_ERROR_CODES
                    THEN HY_ERROR_CODES[b]
                    ELSE IF c = HY THEN ProgrammingError
                    ELSE IF c \in DOMAIN ODBC_ERROR_CODES
                    THEN ODBC_ERROR_CODES[c]
                    ELSE "Error"
               /\ (c = HY /\ b = <<"0", "0", "0">>) => last.res = "Error"
               /\ c = <<"2", "3">> => last.res = "IntegrityError"
               /\ c = <<"0", "1">> => last.res = "Warning"
               /\ c \in {<<"0", "8">>, <<"I", "M">>}
                    => last.res = InterfaceError
               /\ c = <<"2", "8">> => last.res = "DatabaseError"
               /\ (last.arg.text = Strip(last.arg.text)
                   /\ \A i \in DOMAIN last.arg.text : last.arg.text[i] # "CR")
                    => last.msg = last.arg.text
               /\ Len(last.msg) <= Len(last.arg.text)
               /\ Count(calls, "odbGetErrorText") = 1

\* An HY error with a subclass the HY table does not list, in a text of two
\* lines after white space, was classified as ProgrammingError.
C18_UnlistedHYSubclass ==
    /\ last.op = "get_exception" /\ last.arg.shape = "wellformed"
    /\ last.arg.cls = <<"H", "Y">> /\ last.arg.sub = <<"9", "9", "9">>
    /\ Head(last.arg.text) = "SP"
    /\ \E i \in DOMAIN last.arg.text : last.arg.text[i] = "CR"
    /\ last.res = ProgrammingError

\* C19: get_exception always returns an exception of the driver: no error
\* recorded gives Error; a code of the protocol table (connect timeout among
\* them) gives InterfaceError without reading the error text; a server error
\* whose text is empty or None gives Error; a server error whose first line
\* has fewer than two parts around "]" gives Error carrying the protocol
\* code; any other protocol code gives Error.
C19_GetExceptionTotal ==
    last.op = "get_exception"
        => LET e == last.arg
           IN  /\ last.res \in DOMAIN Bases
               /\ e.code = ODBTPERR_NONE => last.res = "Error"
               /\ e.code \in DOMAIN ODBTP_ERRORS
                    => /\ last.res = InterfaceError
                       /\ Count(calls, "odbGetErrorText") = 0
               /\ "ODBTPERR_TIMEOUTCONN" \in DOMAIN ODBTP_ERRORS
               /\ e.shape \in {"empty", "none"} => last.res = "Error"
               /\ e.shape = "nobracket"
                    => (last.res = "Error" /\ last.msg = <<e.code>>)
               /\ e.code \notin DOMAIN ODBTP_ERRORS
                                \cup {ODBTPERR_NONE, ODBTPERR_SERVER}
                    => last.res = "Error"

\* A server error whose first line has no "]" gave Error with the protocol
\* code, after the text was read.
C19_NoBracketGivesCode ==
    /\ last.op = "get_exception" /\ last.arg.shape = "nobracket"
    /\ last.arg.text = <<"[", "H", "Y", "0", "0", "0">>
    /\ last.res = "Error" /\ last.msg = <<ODBTPERR_SERVER>>
    /\ Count(calls, "odbGetErrorText") = 1

\* C20: get_db_api_type returns a descriptor for every supported host value:
\* None an unbound placeholder of the base class, a Binary a BINARY of its
\* length (although a Binary is a str), a str a STRING of its length, a
\* datetime a DATETIME of the default subtype (although a datetime is a
\* date), a date DATETIME('date'), a time DATETIME('time'), an int
\* NUMBER('int'), a Decimal NUMBER('numeric'), a float NUMBER('float'); a
\* value of any other type raises DataError.
C20_DescriptorForEveryValue ==
    last.op = "get_db_api_type"
        => LET t == last.arg.type
               Is(cls, sub) ==
                    /\ last.res = OK
                    /\ last.ret[1].cls = cls /\ last.ret[1].sub_type = sub
           IN  /\ t = "NoneType"
                    => (Is("_DbApiTypeObject", None) /\ ~last.ret[1].bound)
               /\ t = "Binary"
                    => (Is("BINARY", None) /\ last.ret[1].size = last.arg.len)
               /\ t = "str"
                    => (Is("STRING", None) /\ last.ret[1].size = last.arg.len)
               /\ t = "datetime" => Is("DATETIME", "datetime")
               /\ t = "date" => Is("DATETIME", "date")
               /\ t = "time" => Is("DATETIME", "time")
               /\ t = "int" => Is("NUMBER", "int")
               /\ t = "Decimal" => Is("NUMBER", "numeric")
               /\ t = "float" => Is("NUMBER", "float")
               /\ t = "list" => last.res = DataError

\* A Binary of the greatest length got a BINARY descriptor of that size.
C20_BinarySized ==
    /\ last.op = "get_db_api_type" /\ last.arg.type = "Binary"
    /\ last.arg.len = MaxTextLen
    /\ last.res = OK /\ last.ret[1].cls = "BINARY"
    /\ last.ret[1].size = MaxTextLen

\* For a Decimal get_db_api_type raised ProgrammingError.
C20_DecimalRaises ==
    /\ last.op = "get_db_api_type" /\ last.arg.type = "Decimal"
    /\ last.res = ProgrammingError /\ last.ret = <<>>

\* C21 as stated: get_odb_type resolves (SQL type, ODB type) by these rules
\* in order: equal gives the ODB type; 91 with the character type gives
\* date; 92 with the character type gives time; -9 with the wide-character
\* type gives the character type; 2 with the numeric ODB type gives the
\* numeric type; every other pair gives the ODB type as reported.
C21_NumericRuleOnNumericType ==
    last.op = "get_odb_type"
        => LET s == last.arg.sql
               o == last.arg.odb
           IN  last.ret[1] =
                    IF s = o THEN o
                    ELSE IF s = 91 /\ o = ODB_CHAR THEN ODB_DATE
                    ELSE IF s = 92 /\ o = ODB_CHAR THEN ODB_TIME
                    ELSE IF s = -9 /\ o = ODB_WCHAR THEN ODB_CHAR
                    ELSE IF s = 2 /\ o = ODB_NUMERIC THEN ODB_NUMERIC
                    ELSE o

\* C21, amended: as above, but the fifth rule is SQL type 2 with the ODB
\* type code 1, the character type: numeric data sent as characters
\* resolves to the numeric type.
C21_ResolvedInOrder ==
    last.op = "get_odb_type"
        => LET s == last.arg.sql
               o == last.arg.odb
           IN  /\ s = o => last.ret[1] = o
               /\ (s = 91 /\ o = ODB_CHAR) => last.ret[1] = ODB_DATE
               /\ (s = 92 /\ o = ODB_CHAR) => last.ret[1] = ODB_TIME
               /\ (s = -9 /\ o = ODB_WCHAR) => last.ret[1] = ODB_CHAR
               /\ (s = 2 /\ o = ODB_CHAR) => last.ret[1] = ODB_NUMERIC
               /\ (/\ s # o
                   /\ ~(o = ODB_CHAR /\ s \in {91, 92, 2})
                   /\ ~(o = ODB_WCHAR /\ s = -9))
                    => last.ret[1] = o

\* A column of SQL type 2 reported with the character ODB type resolved to
\* the numeric type.
C21_NumericSentAsCharacters ==
    /\ last.op = "get_odb_type"
    /\ last.arg = [sql |-> 2, odb |-> ODB_CHAR]
    /\ last.ret = <<ODB_NUMERIC>>

\* C22: while two threads run execute, executemany and fetch methods, each on
\* its own cursor of one open connection, a step of one thread leaves the
\* prepared_operation, input_sizes, description and rowcount of the other
\* thread's cursor as they were, and once a thread has run an execution to
\* its end connection.committed is false.
C22_CursorsIsolated ==
    [][/\ \A c \in Cursors :
            last'.who # c =>
                /\ cur'[c].prepared_operation = cur[c].prepared_operation
                /\ cur'[c].input_sizes = cur[c].input_sizes
                /\ cur'[c].description = cur[c].description
                /\ cur'[c].rowcount = cur[c].rowcount
       /\ (\E c \in Cursors : thr'[c].done) => ~conn'.committed]_vars

\* One thread has finished an execution of A while the other is inside an
\* execution of its own, between its reading of the description and of the
\* row count.
C22_OneDoneOtherInside ==
    /\ thr["c1"].done
    /\ cur["c1"].prepared_operation = "A"
    /\ ~cur["c1"].description.none
    /\ thr["c2"].pc = "rowcount"
    /\ cur["c2"].prepared_operation = "A"
    /\ last.who = "c2" /\ ~last.wasCommitted

\* The odbPrepare of the last method call succeeded: it was made and it was
\* not the call that failed (a failed call is the last one before the
\* rollback).
PrepareSucceeded(cs, res) ==
    /\ Count(cs, "odbPrepare") = 1
    /\ ~(/\ res = Classified
         /\ \/ First(cs, "odbPrepare") = Len(cs)
            \/ cs[First(cs, "odbPrepare") + 1].f = "odbRollback")

\* C23: an execute or executemany call that gets past its checks sends
\* odbPrepare exactly when its operation differs from the cursor's
\* prepared_operation, and it changes prepared_operation exactly when that
\* odbPrepare succeeded, to the operation; so a call that follows a call
\* with the same operation whose prepare succeeded sends no odbPrepare.
C23_PrepareIffTextDiffers ==
    [][(/\ last'.op \in {"Cursor.executemany", "Cursor.execute"}
        /\ last'.wasOpen
        /\ last'.rows # <<>>)
       => /\ Count(calls', "odbPrepare") =
                IF last'.text # cur[ExecCursor].prepared_operation THEN 1 ELSE 0
          /\ PrepareSucceeded(calls', last'.res)
                => cur'[ExecCursor].prepared_operation = last'.text
          /\ ~PrepareSucceeded(calls', last'.res)
                => cur'[ExecCursor].prepared_operation =
                        cur[ExecCursor].prepared_operation
          /\ (/\ last.op \in {"Cursor.executemany", "Cursor.execute"}
              /\ last.text = last'.text
              /\ PrepareSucceeded(calls, last.res))
                => Count(calls', "odbPrepare") = 0]_vars

\* A call with operation A executed without preparing, after an earlier
\* call had prepared A.
C23_ExecutedWithoutPrepare ==
    /\ last.op = "Cursor.executemany"
    /\ last.text = "A"
    /\ Count(calls, "odbPrepare") = 0
    /\ Count(calls, "odbExecute") = 1
    /\ cur[ExecCursor].prepared_operation = "A"

\* The number of values in the parameter rows.
ValuesIn(rows) == (StatusCalls(rows) - 1 - Len(rows)) \div 2

\* C24: an execute or executemany call whose operation differs from a
\* non-null prepared_operation, once its odbPrepare succeeded, leaves the
\* cursor without size hints and binds every value of every row by its
\* inferred type; and when the call before it was a setinputsizes that was
\* given type objects, the prepare binds exactly those hints, column by
\* column.
C24_HintsClearedOrUsed ==
    [][(/\ last'.op \in {"Cursor.executemany", "Cursor.execute"}
        /\ last'.wasOpen
        /\ last'.rows # <<>>
        /\ PrepareSucceeded(calls', last'.res))
       => LET p == First(calls', "odbPrepare")
          IN  /\ cur[ExecCursor].prepared_operation # None
                    => /\ cur'[ExecCursor].input_sizes = <<>>
                       /\ \A j \in 1..Len(calls') :
                            calls'[j].f = "odbBindParamEx"
                                => \E i \in 1..Len(last'.rows) :
                                    /\ calls'[j].col <= Len(last'.rows[i])
                                    /\ calls'[j].arg = get_db_api_type(
                                            last'.rows[i][calls'[j].col]).d.cls
                       /\ last'.res = OK
                            => Count(calls', "odbBindParamEx")
                                    = ValuesIn(last'.rows)
              /\ (/\ last.op = "Cursor.setinputsizes"
                  /\ last.ret # <<>>
                  /\ last.arg = 0)
                    => \A i \in 1..Len(last.ret) :
                        /\ p + i <= Len(calls')
                        /\ calls'[p + i].f = "odbBindParamEx"
                        /\ calls'[p + i].col = i
                        /\ calls'[p + i].arg = last.ret[i]]_vars

\* The part of C24 that holds: with a non-null prepared_operation and a
\* different operation, a successful prepare leaves no size hints and every
\* bind is by the inferred type of a value of the rows.
C24_ClearedAndBoundFresh ==
    [][(/\ last'.op \in {"Cursor.executemany", "Cursor.execute"}
        /\ last'.wasOpen
        /\ last'.rows # <<>>
        /\ PrepareSucceeded(calls', last'.res)
        /\ cur[ExecCursor].prepared_operation # None)
       => /\ cur'[ExecCursor].input_sizes = <<>>
          /\ \A j \in 1..Len(calls') :
                calls'[j].f = "odbBindParamEx"
                    => \E i \in 1..Len(last'.rows) :
                        /\ calls'[j].col <= Len(last'.rows[i])
                        /\ calls'[j].arg = get_db_api_type(
                                last'.rows[i][calls'[j].col]).d.cls
          /\ last'.res = OK
                => Count(calls', "odbBindParamEx") = ValuesIn(last'.rows)]_vars

\* setinputsizes was given a type object and raised NameError: the cursor
\* has no size hints for the next prepare to use.
C24_HintsNotInstalled ==
    /\ last.op = "Cursor.setinputsizes"
    /\ last.ret # <<>>
    /\ last.arg = 0
    /\ last.res = NameError
    /\ cur[ExecCursor].input_sizes = <<>>

C26_LastFlagOnLastColumn ==
    (last.op = "Cursor.executemany" /\ last.res = OK)
        => \A j \in 1..Len(last.rows) :
            \A m \in (ExecIndex(calls, j - 1) + 1)..(ExecIndex(calls, j) - 1) :
                calls[m].f \in SetFuncs \cup {"odbBindParamEx"}
                    => (calls[m].final <=> calls[m].col = Len(last.rows[j]))

\* A batch of a one-value row and a two-value row was executed: for the
\* second row column 1 was bound and set as the last column and column 2
\* as not the last, as total_cols is the length of the first row.
C26_FlagFromFirstRow ==
    /\ last.op = "Cursor.executemany" /\ last.res = OK
    /\ last.rows = <<(<<"int">>), (<<"NoneType", "int">>)>>
    /\ \E m, n \in (ExecIndex(calls, 1) + 1)..(ExecIndex(calls, 2) - 1) :
        /\ calls[m].f = "odbSetParamNull" /\ calls[m].col = 1 /\ calls[m].final
        /\ calls[n].f = "odbSetParamLongLong" /\ calls[n].col = 2
        /\ ~calls[n].final

\* C27: when Connection.close has issued odbLogout, no odbExecute issued
\* since the last successful commit is without a rollback issued after it.
C27_NothingPendingAtLogout ==
    (last.op = "Connection.close" /\ Count(calls, "odbLogout") = 1)
        => ~pending

\* close logged out without a rollback while an executed row was pending:
\* committed was still true from the commit before the batch that raised.
C27_LogoutWithPendingWork ==
    /\ last.op = "Connection.close" /\ last.res = OK
    /\ last.wasCommitted
    /\ Count(calls, "odbRollback") = 0
    /\ Count(calls, "odbLogout") = 1
    /\ pending

\* C28: whenever a fetch method has decoded a row, the cursor's description
\* is the description of the result set the library is at: as many columns,
\* each of the type get_odb_type gives it.
C28_DescriptionOfCurrentSet ==
    (last.op \in FetchOps /\ Count(calls, "odbColData") > 0)
        => cur[last.who].description = update_description(srv[last.who])

\* After nextset moved the library to a result set of two columns, fetchmany
\* decoded one column of its row as a date: description still lists the one
\* column of the set the execution left.
C28_RowDecodedByOldDescription ==
    /\ last.op = "Cursor.fetchmany" /\ last.res = OK /\ Len(last.ret) = 1
    /\ Count(calls, "odbColData") = 1
    /\ srv[ExecCursor].cols = <<IntColumn, DateColumn>>
    /\ cur[ExecCursor].description = Description(<<ODB_DATE>>)

C30_ExecutesLastPrepared ==
    (/\ last.op \in {"Cursor.executemany", "Cursor.execute"}
     /\ Count(calls, "odbExecute") > 0)
        => stmt[last.who] = [text |-> last.text, ok |-> TRUE]

\* An execution of A issued odbExecute without preparing, after the
\* odbPrepare of B had failed on the handle: A was prepared before B.
C30_ExecutedAfterFailedPrepare ==
    /\ last.op = "Cursor.executemany" /\ last.text = "A"
    /\ Count(calls, "odbPrepare") = 0
    /\ Count(calls, "odbExecute") = 1
    /\ stmt[ExecCursor] = [text |-> "B", ok |-> FALSE]

====
